---------------------------- MODULE Spec2Model ----------------------------
(***************************************************************************)
(* A model of skforecast's ForecasterAutoreg (recursive forecasting with   *)
(* residual pools and bootstrapping) and ForecasterAutoregMultiVariate     *)
(* (direct forecasting, one estimator per horizon).                        *)
(*                                                                         *)
(* Numbers are integers.  A pandas Series / numpy array of a time series   *)
(* is a sequence of integers.  A residual array is run-length encoded (a   *)
(* sequence of runs [v |-> value, c |-> count]) so that arrays of more     *)
(* than 1000 residuals can be held in a state.  A Python dict is a         *)
(* sequence of [k, v] items in insertion order.  `None` is the empty       *)
(* tuple and a present value x is <<x>>.                                   *)
(***************************************************************************)
EXTENDS Integers, Sequences, FiniteSets, TLC

VARIABLES
    forecaster, \* the forecaster object under test: a record of its attributes
    call,      \* the last call made on a forecaster: arguments, outcome, trace
    boot,      \* the last predict_bootstrapping call that returned an ensemble
    warned,    \* warnings emitted by the last call (warnings.warn)
    clock,     \* number of calls made so far (wall clock of fit_date, call ids)
    jobs       \* the jobs of a fit of ForecasterAutoregMultiVariate in progress

vars == <<forecaster, call, boot, warned, clock, jobs>>

-----------------------------------------------------------------------------
(* Bounds of the model *)

\* calls explored on one forecaster in the prediction specification
MaxCalls == 3
\* calls explored on one forecaster in the residual-pool specification
MaxPoolCalls == 3
\* largest number of steps requested from predict / predict_bootstrapping
MaxSteps == 3
\* largest number of bootstrap replicates
MaxBoot == 2
\* seeds 0..MaxSeed are passed as random_state
MaxSeed == 1
\* the first training row to which the weight function "late" gives weight 1
LateFrom == 7
\* longest series handed to the functions that build the training matrices
MaxLen == 6

-----------------------------------------------------------------------------
(* Optional values, NaN *)

None == << >>
Some(x) == <<x>>
IsNone(o) == o = << >>
Val(o) == o[1]

\* np.nan: the value numpy writes into a freshly allocated buffer
NaN == -99999

-----------------------------------------------------------------------------
(* Sequences of numbers (numpy 1-d arrays of a series) *)

RECURSIVE SumSeq(_)
SumSeq(s) ==
    IF s = << >> THEN 0 ELSE Head(s) + SumSeq(Tail(s))

Max(a, b) == IF a >= b THEN a ELSE b
Min(a, b) == IF a <= b THEN a ELSE b

RECURSIVE MaxSeq(_)
MaxSeq(s) ==
    IF Len(s) = 1 THEN s[1] ELSE Max(Head(s), MaxSeq(Tail(s)))

HasNaN(s) == \E j \in 1..Len(s) : s[j] = NaN

\* s[-n:] of numpy / .iloc[-n:] of pandas, for n >= 1
LastN(s, n) ==
    IF n >= Len(s) THEN s ELSE SubSeq(s, Len(s) - n + 1, Len(s))

\* s[n:]
DropN(s, n) ==
    IF n >= Len(s) THEN << >> ELSE SubSeq(s, n + 1, Len(s))

\* numpy indexing with a possibly negative index into an array of length Len(s):
\* the 1-based position, or 0 when the index is out of range (IndexError)
NpPos(s, ix) ==
    IF ix >= 0
    THEN (IF ix < Len(s) THEN ix + 1 ELSE 0)
    ELSE (IF 0 - ix <= Len(s) THEN Len(s) + ix + 1 ELSE 0)

\* np.full(shape=n, fill_value=v): an array of n values v
RECURSIVE np_full(_, _)
np_full(n, v) == IF n = 0 THEN << >> ELSE Append(np_full(n - 1, v), v)

\* A pandas Series with a RangeIndex of step 1: its values and the label of
\* the first one
Series(values, start) == [values |-> values, start |-> start]

\* series.iloc[-n:]
SeriesTail(s, n) ==
    Series(LastN(s.values, n), s.start + Len(s.values) - Len(LastN(s.values, n)))

-----------------------------------------------------------------------------
(* Run-length encoded residual arrays *)

Run(v, n) == [v |-> v, c |-> n]

\* np.full(n, v) as a residual array
ArrFull(v, n) == IF n <= 0 THEN << >> ELSE << Run(v, n) >>

RECURSIVE ArrLen(_)
ArrLen(a) ==
    IF a = << >> THEN 0 ELSE Head(a).c + ArrLen(Tail(a))

\* np.hstack((a, b)) / np.concatenate
ArrConcat(a, b) ==
    IF a = << >> THEN b
    ELSE IF b = << >> THEN a
    ELSE IF a[Len(a)].v = b[1].v
         THEN SubSeq(a, 1, Len(a) - 1)
              \o << Run(b[1].v, a[Len(a)].c + b[1].c) >>
              \o Tail(b)
         ELSE a \o b

\* a[:n]
RECURSIVE ArrPrefix(_, _)
ArrPrefix(a, n) ==
    IF n <= 0 \/ a = << >> THEN << >>
    ELSE IF Head(a).c >= n THEN << Run(Head(a).v, n) >>
    ELSE << Head(a) >> \o ArrPrefix(Tail(a), n - Head(a).c)

\* a[ix] for a 0-based index ix < len(a)
RECURSIVE ArrAt(_, _)
ArrAt(a, ix) ==
    IF ix < Head(a).c THEN Head(a).v ELSE ArrAt(Tail(a), ix - Head(a).c)

\* number of occurrences of value v in a
RECURSIVE ArrCount(_, _)
ArrCount(a, v) ==
    IF a = << >> THEN 0
    ELSE (IF Head(a).v = v THEN Head(a).c ELSE 0) + ArrCount(Tail(a), v)

ArrValues(a) == { a[j].v : j \in 1..Len(a) }

\* every value of a occurs in b at least as often as in a
ArrSubBag(a, b) == \A v \in ArrValues(a) : ArrCount(a, v) <= ArrCount(b, v)

-----------------------------------------------------------------------------
(* Python dicts: items in insertion order *)

DictKeys(d) == { d[j].k : j \in 1..Len(d) }
DictHas(d, k) == k \in DictKeys(d)
DictGet(d, k) == (CHOOSE j \in 1..Len(d) : d[j].k = k)
DictVal(d, k) == d[DictGet(d, k)].v

\* d[k] = v
DictSet(d, k, v) ==
    IF DictHas(d, k)
    THEN [d EXCEPT ![DictGet(d, k)] = [k |-> k, v |-> v]]
    ELSE Append(d, [k |-> k, v |-> v])

\* np.concatenate(list(d.values())) for a dict of residual arrays
RECURSIVE DictConcat(_)
DictConcat(d) ==
    IF d = << >> THEN << >>
    ELSE ArrConcat(Head(d).v, DictConcat(Tail(d)))

-----------------------------------------------------------------------------
(* Collaborators: transformer, differentiator, estimator, discretizer, rng *)

\* n_bins of the default binner_kwargs
NBins == 10
\* residuals kept in a flat pool by set_out_sample_residuals
FlatCap == 1000
\* residuals kept per bin
BinCap == 200

\* An invertible transformer_y (a scaler): fit learns a centre from the
\* training series, transform subtracts it, inverse_transform adds it back.
TransformerFit(y) == [center |-> y[1]]

\* transform_numpy(array, transformer, fit=False, inverse_transform)
transform_numpy(array, transformer, inverse_transform) ==
    IF IsNone(transformer) THEN array
    ELSE [j \in 1..Len(array) |->
            IF array[j] = NaN THEN NaN
            ELSE IF inverse_transform
                 THEN array[j] + Val(transformer).center
                 ELSE array[j] - Val(transformer).center]

\* transform_dataframe applied to the rows of exog (one centre for the frame)
transform_exog(exog, transformer) ==
    IF IsNone(transformer) THEN exog
    ELSE [r \in 1..Len(exog) |->
            [c \in 1..Len(exog[r]) |-> exog[r][c] - Val(transformer).center]]

\* transform_numpy applied to a residual array
transform_residuals(a, transformer) ==
    IF IsNone(transformer) THEN a
    ELSE [j \in 1..Len(a) |->
            IF a[j].v = NaN THEN a[j]
            ELSE Run(a[j].v - Val(transformer).center, a[j].c)]

\* np.diff(s, n=1)
Diff1(s) == [j \in 1..(Len(s) - 1) |-> s[j + 1] - s[j]]

RECURSIVE DiffN(_, _)
DiffN(s, n) == IF n = 0 THEN s ELSE DiffN(Diff1(s), n - 1)

\* np.cumsum(s)
RECURSIVE CumSum(_)
CumSum(s) ==
    IF s = << >> THEN << >>
    ELSE LET front == CumSum(SubSeq(s, 1, Len(s) - 1))
         IN  Append(front, (IF front = << >> THEN 0 ELSE front[Len(front)])
                           + s[Len(s)])

\* TimeSeriesDifferentiator.fit: the state it keeps for the inverse transforms
DifferentiatorFit(order, X) ==
    [order          |-> order,
     initial_values |-> [i \in 1..order |-> DiffN(X, i - 1)[1]],
     last_values    |-> [i \in 1..order |->
                            LET cur == DiffN(X, i - 1) IN cur[Len(cur)]]]

\* TimeSeriesDifferentiator.transform: order NaNs, then the differences
DifferentiatorTransform(order, X) ==
    [j \in 1..order |-> NaN] \o DiffN(X, order)

\* TimeSeriesDifferentiator.inverse_transform_next_window on one column
RECURSIVE InverseNextWindowFrom(_, _, _)
InverseNextWindowFrom(d, X, i) ==
    IF i > d.order THEN X
    ELSE InverseNextWindowFrom(
             d,
             [j \in 1..Len(X) |-> CumSum(X)[j]
                                    + d.last_values[d.order - i + 1]],
             i + 1)

inverse_transform_next_window(d, X) == InverseNextWindowFrom(d, X, 1)

\* regressor.predict on one row X (a sequence of predictors).  The estimator
\* is a black box; two deterministic estimators stand for it.
RECURSIVE WeightedSum(_, _)
WeightedSum(X, j) ==
    IF j > Len(X) THEN 0 ELSE j * X[j] + WeightedSum(X, j + 1)

RegressorPredict(reg, X) ==
    IF HasNaN(X) THEN NaN
    ELSE IF reg.kind = "mean" THEN SumSeq(X) \div Len(X)
    ELSE WeightedSum(X, 1)

\* Bin edges are held multiplied by NBins, so that the linear interpolation
\* of np.percentile stays in the integers; -inf and +inf are inf = -1, 1.
Edge(x) == [inf |-> 0, x |-> x]
NegInf == [inf |-> -1, x |-> 0]
PosInf == [inf |-> 1, x |-> 0]

RECURSIVE SortedSeq(_)
SortedSeq(S) ==
    IF S = {} THEN << >>
    ELSE LET m == CHOOSE x \in S : \A y \in S : x <= y
         IN  << m >> \o SortedSeq(S \ {m})

\* np.sort of an array, run-length encoded
ArrSort(a) ==
    LET vs == SortedSeq(ArrValues(a))
    IN  [j \in 1..Len(vs) |-> Run(vs[j], ArrCount(a, vs[j]))]

\* np.percentile(column, 100 * k / NBins), times NBins (linear interpolation)
Percentile(sorted, k) ==
    LET n   == ArrLen(sorted)
        f   == (k * (n - 1)) \div NBins
        rem == (k * (n - 1)) % NBins
        lo  == ArrAt(sorted, f)
        hi  == IF rem = 0 THEN lo ELSE ArrAt(sorted, f + 1)
    IN  NBins * lo + rem * (hi - lo)

\* KBinsDiscretizer(strategy='quantile').fit on a column: bin_edges_[0]
KBinsFit(column) ==
    LET sorted == ArrSort(column)
        raw    == [k \in 1..(NBins + 1) |-> Percentile(sorted, k - 1)]
        keep   == { k \in 1..(NBins + 1) : k = 1 \/ raw[k] > raw[k - 1] }
        ks     == SortedSeq(keep)
    IN  IF Len(sorted) = 1
        THEN << NegInf, PosInf >>
        ELSE [j \in 1..Len(ks) |-> Edge(raw[ks[j]])]

\* KBinsDiscretizer.transform of one value:
\* np.searchsorted(bin_edges[1:-1], x, side="right")
KBinsTransform(edges, x) ==
    IF x = NaN THEN Len(edges) - 2
    ELSE Cardinality({ j \in 2..(Len(edges) - 1) : edges[j].x <= NBins * x })

\* np.random.default_rng(seed): the state of a fresh generator
default_rng(seed) == seed + 1

\* the generator's state after one more draw
rng_step(g) == (3 * g) % 31

RECURSIVE rng_skip(_, _)
rng_skip(g, n) == IF n = 0 THEN g ELSE rng_skip(rng_step(g), n - 1)

\* rng.choice(a, size=1): the value drawn by the n-th next draw from array a
rng_choice(g, n, a) == ArrAt(a, rng_skip(g, n) % ArrLen(a))

\* inspect.signature(regressor.fit).parameters
FitParameters(regressor) ==
    { "X", "y", "sample_weight", "categorical_feature", "verbose" }

\* utils.check_select_fit_kwargs(regressor, fit_kwargs): None gives {};
\* otherwise the items whose key is a parameter of regressor.fit, without
\* sample_weight
check_select_fit_kwargs(regressor, fit_kwargs) ==
    IF IsNone(fit_kwargs) THEN << >>
    ELSE SelectSeq(Val(fit_kwargs),
                   LAMBDA item : /\ item.k \in FitParameters(regressor)
                                 /\ item.k # "sample_weight")

-----------------------------------------------------------------------------
(* ForecasterAutoreg: construction and training *)

\* ForecasterAutoreg.__init__
ForecasterAutoreg(regressor, lags, transformer_y, transformer_exog, differentiation, weight_func) ==
    [class            |-> "ForecasterAutoreg",
     regressor        |-> [kind |-> regressor, trained |-> None],
     lags             |-> lags,
     max_lag          |-> MaxSeq(lags),
     window_size      |-> MaxSeq(lags),
     window_size_diff |-> MaxSeq(lags)
                          + (IF IsNone(differentiation) THEN 0
                             ELSE Val(differentiation)),
     transformer_y    |-> IF transformer_y
                          THEN Some([fitted |-> FALSE, center |-> 0])
                          ELSE None,
     transformer_exog |-> IF transformer_exog
                          THEN Some([fitted |-> FALSE, center |-> 0])
                          ELSE None,
     differentiation  |-> differentiation,
     weight_func      |-> weight_func,
     fit_kwargs       |-> check_select_fit_kwargs(
                              [kind |-> regressor, trained |-> None], None),
     differentiator   |-> IF IsNone(differentiation) THEN None
                          ELSE Some([order          |-> Val(differentiation),
                                     initial_values |-> << >>,
                                     last_values    |-> << >>]),
     last_window_     |-> None,
     index_type_      |-> None,
     index_freq_      |-> None,
     training_range_  |-> None,
     exog_in_         |-> FALSE,
     X_train_features_names_out_  |-> None,
     in_sample_residuals_         |-> None,
     out_sample_residuals_        |-> None,
     in_sample_residuals_by_bin_  |-> None,
     out_sample_residuals_by_bin_ |-> None,
     binner           |-> [bin_edges_ |-> None],
     binner_intervals |-> None,
     is_fitted        |-> FALSE,
     fit_date         |-> None]

\* a variant of create_lags that fills the columns in the opposite order:
\* the largest lag first
create_lags_reversed(f, y) ==
    LET n_splits == Len(y) - f.max_lag
    IN  IF n_splits <= 0
        THEN [raised |-> "ValueError", X_data |-> << >>, y_data |-> << >>]
        ELSE [raised |-> "",
              X_data |-> [r \in 1..n_splits |->
                            [i \in 1..Len(f.lags) |->
                                y[f.max_lag - f.lags[Len(f.lags) + 1 - i] + r]]],
              y_data |-> DropN(y, f.max_lag)]

\* ForecasterAutoreg._create_lags: the lag matrix and the target of series y
\* (no rows when the series is not longer than the maximum lag: ValueError)
create_lags(f, y) ==
    LET n_splits == Len(y) - f.max_lag
    IN  IF n_splits <= 0
        THEN [raised |-> "ValueError", X_data |-> << >>, y_data |-> << >>]
        ELSE [raised |-> "",
              X_data |-> [r \in 1..n_splits |->
                            [i \in 1..Len(f.lags) |->
                                y[f.max_lag - f.lags[i] + r]]],
              y_data |-> DropN(y, f.max_lag)]

\* create_train_X_y, lines 561-578: the transformer and the differentiator
\* are fitted on the series (is_fitted is False when fit calls it); the
\* forecaster and the transformed, differenced values
fit_transform_y(f, y, tr, d) ==
    [f |-> [f EXCEPT !.transformer_y = tr,
                     !.differentiator =
                         IF d = 0 THEN @
                         ELSE Some(DifferentiatorFit(
                                       d, transform_numpy(y, tr, FALSE)))],
     y |-> IF d = 0 THEN transform_numpy(y, tr, FALSE)
           ELSE DifferentiatorTransform(d, transform_numpy(y, tr, FALSE))]

\* create_train_X_y, lines 580-638: the checks of exog, the lag matrix lg, the
\* exog columns, and the rows lost to the differentiation
train_X_y(f, lg, n, d, exog) ==
    IF ~IsNone(exog) /\ Len(Val(exog)) # n
    THEN [f |-> f, raised |-> "ValueError", X_train |-> << >>, y_train |-> << >>]
    ELSE IF lg.raised # ""
    THEN [f |-> f, raised |-> lg.raised, X_train |-> << >>, y_train |-> << >>]
    ELSE [f |-> [f EXCEPT !.X_train_features_names_out_ =
                     Some([lags |-> f.lags, exog |-> ~IsNone(exog)])],
          raised |-> "",
          X_train |-> DropN(IF IsNone(exog) THEN lg.X_data
                            ELSE [r \in 1..Len(lg.X_data) |->
                                    lg.X_data[r]
                                    \o transform_exog(Val(exog),
                                                      f.transformer_exog)
                                           [f.max_lag + r]],
                            d),
          y_train |-> DropN(lg.y_data, d)]

\* create_train_X_y, lines 587-592: transformer_exog is fitted on the exog
\* of the training (is_fitted is False when fit calls it)
fit_transformer_exog(f, n, exog) ==
    IF IsNone(f.transformer_exog) \/ IsNone(exog) THEN f
    ELSE IF Len(Val(exog)) # n \/ n = 0 THEN f
    ELSE [f EXCEPT !.transformer_exog =
             Some([fitted |-> TRUE, center |-> Val(exog)[1][1]])]

train_X_y_of(ft, n, d, exog) ==
    train_X_y(fit_transformer_exog(ft.f, n, exog), create_lags(ft.f, ft.y),
              n, d, exog)

\* ForecasterAutoreg.create_train_X_y as fit calls it
create_train_X_y(f, y, exog) ==
    train_X_y_of(
        fit_transform_y(
            f, y,
            IF IsNone(f.transformer_y) THEN None
            ELSE Some([fitted |-> TRUE, center |-> TransformerFit(y).center]),
            IF IsNone(f.differentiation) THEN 0 ELSE Val(f.differentiation)),
        Len(y),
        IF IsNone(f.differentiation) THEN 0 ELSE Val(f.differentiation),
        exog)

\* A (residual, prediction) pair that occurs c times in a row of the data
Block(r, p, c) == [r |-> r, p |-> p, c |-> c]

\* the 'prediction' column of the merged frame, as an array
RECURSIVE PredictionColumn(_)
PredictionColumn(blocks) ==
    IF blocks = << >> THEN << >>
    ELSE ArrConcat(ArrFull(Head(blocks).p, Head(blocks).c),
                   PredictionColumn(Tail(blocks)))

\* the residuals of the rows whose prediction falls in bin b, in row order
RECURSIVE ResidualsOfBin(_, _, _)
ResidualsOfBin(blocks, edges, b) ==
    IF blocks = << >> THEN << >>
    ELSE LET h    == Head(blocks)
             rest == ResidualsOfBin(Tail(blocks), edges, b)
         IN  IF KBinsTransform(edges, h.p) = b
             THEN ArrConcat(ArrFull(h.r, h.c), rest)
             ELSE rest

\* data.groupby('bin')[residual].apply(np.array).to_dict(): keys ascending
GroupByBin(blocks, edges) ==
    LET bins == SortedSeq({ KBinsTransform(edges, blocks[j].p) :
                              j \in 1..Len(blocks) })
    IN  [j \in 1..Len(bins) |->
            [k |-> bins[j], v |-> ResidualsOfBin(blocks, edges, bins[j])]]

\* rng.choice(a, size, replace=False): the samples of `size` elements of a,
\* kept in the order of a
RECURSIVE SamplesWithoutReplacement(_, _)
SamplesWithoutReplacement(a, size) ==
    IF a = << >> THEN (IF size = 0 THEN { << >> } ELSE {})
    ELSE UNION { { ArrConcat(ArrFull(Head(a).v, c), rest) :
                     rest \in SamplesWithoutReplacement(Tail(a), size - c) } :
                 c \in Max(0, size - ArrLen(Tail(a)))..Min(Head(a).c, size) }

\* the dicts a loop `for k, v in d.items()` can leave that replaces every
\* array of more than cap elements by a random sample of cap of them: one
\* dict per outcome of the samples
RECURSIVE CapDict(_, _)
CapDict(d, cap) ==
    IF d = << >> THEN { << >> }
    ELSE LET h == Head(d)
             vs == IF ArrLen(h.v) > cap
                   THEN SamplesWithoutReplacement(h.v, cap)
                   ELSE { h.v }
         IN  { << [k |-> h.k, v |-> s] >> \o rest :
                 s \in vs, rest \in CapDict(Tail(d), cap) }

\* the loop without its sampling: every array is stored whole
CapPerBin_uncapped(d) == { d }

\* "Only up to 200 residuals are stored per bin"
CapPerBin(d) == CapDict(d, BinCap)

\* binner_intervals: bin i |-> (edge i, edge i + 1)
BinnerIntervals(edges) ==
    [j \in 1..(Len(edges) - 1) |->
        [k |-> j - 1, v |-> << edges[j], edges[j + 1] >>]]

\* ForecasterAutoreg._binning_in_sample_residuals on the training rows given
\* as (residual, prediction) blocks; by_bin is the outcome of the capping
binning_in_sample_residuals(f, blocks, by_bin) ==
    LET edges == KBinsFit(PredictionColumn(blocks))
    IN  [f EXCEPT !.binner = [bin_edges_ |-> Some(edges)],
                  !.in_sample_residuals_by_bin_ = Some(by_bin),
                  !.in_sample_residuals_ = Some(DictConcat(by_bin)),
                  !.binner_intervals = Some(BinnerIntervals(edges))]

\* the outcomes by_bin of the capping loop of _binning_in_sample_residuals
BinningOutcomes(blocks) ==
    CapPerBin(GroupByBin(blocks, KBinsFit(PredictionColumn(blocks))))

\* The weights a weight_func gives to the n_rows rows of X_train: "late"
\* gives weight 0 to the first LateFrom - 1 rows and weight 1 to the others
WeightFunc(weight_func, n_rows) ==
    [r \in 1..n_rows |-> IF r >= LateFrom THEN 1 ELSE 0]

\* ForecasterAutoreg.create_sample_weights(X_train), lines 641-681: the
\* error raised, "" when there is none
create_sample_weights(f, n_rows) ==
    IF IsNone(f.weight_func) THEN ""
    ELSE IF \E r \in 1..n_rows : WeightFunc(Val(f.weight_func), n_rows)[r] = NaN
    THEN "ValueError"
    ELSE IF \E r \in 1..n_rows : WeightFunc(Val(f.weight_func), n_rows)[r] < 0
    THEN "ValueError"
    ELSE IF SumSeq(WeightFunc(Val(f.weight_func), n_rows)) = 0
    THEN "ValueError"
    ELSE ""

\* a variant of FitReset that resets nothing
FitReset_kept(f) == f

\* ForecasterAutoreg.fit, lines 718-730: "Reset values in case the forecaster
\* has already been fitted"
FitReset(f) ==
    [f EXCEPT !.last_window_ = None,
              !.index_type_ = None,
              !.index_freq_ = None,
              !.training_range_ = None,
              !.exog_in_ = FALSE,
              !.X_train_features_names_out_ = None,
              !.in_sample_residuals_ = None,
              !.is_fitted = FALSE,
              !.fit_date = None]

\* the frame `data` of _binning_in_sample_residuals as blocks: rows is the
\* frame row by row, starts the positions where a row differs from the one
\* before it
MergeRows(rows, starts) ==
    [k \in 1..Len(starts) |->
        Block(rows[starts[k]].r, rows[starts[k]].p,
              (IF k < Len(starts) THEN starts[k + 1] ELSE Len(rows) + 1)
                  - starts[k])]

RowBlocks(rows) ==
    MergeRows(rows, SortedSeq({ j \in 1..Len(rows) :
                                  j = 1 \/ rows[j] # rows[j - 1] }))

\* the in-sample (residual, prediction) pairs of the training rows
InSampleBlocks(reg, X_train, y_train) ==
    RowBlocks([r \in 1..Len(X_train) |->
                  [r |-> y_train[r] - RegressorPredict(reg, X_train[r]),
                   p |-> RegressorPredict(reg, X_train[r])]])

\* ForecasterAutoreg.fit after create_train_X_y (lines 733-783): the estimator
\* is trained on n_features columns, the metadata are set, the in-sample
\* residuals `blocks` of the training rows are binned and the last window is
\* stored.  The outcomes [f, raised], one per outcome of the capping samples.
fit_trained(f, n_features, n_obs, last_window, exog_in, blocks, store_last_window, store_in_sample_residuals, now) ==
    LET f1 == [f EXCEPT !.regressor = [@ EXCEPT !.trained =
                                          Some([n_features |-> n_features])],
                        !.is_fitted = TRUE,
                        !.fit_date = Some(now),
                        !.training_range_ = Some(<< 0, n_obs - 1 >>),
                        !.index_type_ = Some("RangeIndex"),
                        !.index_freq_ = Some(1),
                        !.exog_in_ = exog_in]
        windowOf(g) ==
            IF store_last_window
            THEN [g EXCEPT !.last_window_ = Some(last_window)]
            ELSE g
    IN  IF store_in_sample_residuals
        THEN { [f |-> windowOf(binning_in_sample_residuals(f1, blocks, by_bin)),
                raised |-> ""] : by_bin \in BinningOutcomes(blocks) }
        ELSE { [f |-> windowOf(f1), raised |-> ""] }

\* fit, lines 733-783, on the outcome tr of create_train_X_y
fit_after_train(tr, y, exog, window_size_diff, store_last_window, store_in_sample_residuals, now) ==
    IF tr.raised # "" THEN { [f |-> tr.f, raised |-> tr.raised] }
    ELSE IF create_sample_weights(tr.f, Len(tr.X_train)) # ""
    THEN { [f |-> tr.f,
            raised |-> create_sample_weights(tr.f, Len(tr.X_train))] }
    ELSE IF Len(tr.X_train) = 0
    THEN { [f |-> tr.f, raised |-> "ValueError"] }
    ELSE fit_trained(tr.f, Len(tr.X_train[1]), Len(y),
                     SeriesTail(Series(y, 0), window_size_diff),
                     ~IsNone(exog),
                     InSampleBlocks(tr.f.regressor, tr.X_train, tr.y_train),
                     store_last_window, store_in_sample_residuals, now)

\* ForecasterAutoreg.fit: the outcomes [f, raised] of fit(y, exog,
\* store_last_window, store_in_sample_residuals) called at time `now`
Fit(f, y, exog, store_last_window, store_in_sample_residuals, now) ==
    fit_after_train(create_train_X_y(FitReset(f), y, exog), y, exog,
                    f.window_size_diff, store_last_window,
                    store_in_sample_residuals, now)

-----------------------------------------------------------------------------
(* ForecasterAutoreg: prediction *)

\* utils.check_predict_input as _create_predict_inputs calls it: the exception
\* it raises, or "" when the inputs are accepted
check_predict_input(f, steps, last_window, exog) ==
    IF ~f.is_fitted THEN "NotFittedError"
    ELSE IF steps < 1 THEN "ValueError"
    ELSE IF IsNone(exog) # ~f.exog_in_ THEN "ValueError"
    ELSE IF IsNone(last_window) THEN "ValueError"
    ELSE IF Len(Val(last_window).values) < f.window_size_diff THEN "ValueError"
    ELSE IF HasNaN(Val(last_window).values) THEN "ValueError"
    ELSE IF ~IsNone(exog) /\ Len(Val(exog)) < steps THEN "ValueError"
    ELSE ""

\* utils.expand_index(index, steps): the steps labels after the end of index
expand_index(s, steps) ==
    [i \in 1..steps |-> s.start + Len(s.values) + i - 1]

\* _create_predict_inputs, lines 949-982, on the window lw and its
\* transformed values lwt
predict_inputs(f, steps, lw, lwt, d, exog) ==
    [f |-> IF d = 0 THEN f
           ELSE [f EXCEPT !.differentiator = Some(DifferentiatorFit(d, lwt))],
     raised |-> "",
     last_window_values |-> IF d = 0 THEN lwt
                            ELSE DifferentiatorTransform(d, lwt),
     exog_values |-> IF IsNone(exog) THEN None
                     ELSE Some(SubSeq(transform_exog(Val(exog),
                                                     f.transformer_exog),
                                      1, steps)),
     prediction_index |-> expand_index(lw, steps)]

\* _create_predict_inputs, lines 917-947: the checks on last window lw0
checked_predict_inputs(f, steps, lw0, exog, chk, predict_boot, in_sample_residuals, binned_residuals) ==
    IF chk # ""
    THEN [f |-> f, raised |-> chk, last_window_values |-> << >>,
          exog_values |-> None, prediction_index |-> << >>]
    ELSE IF predict_boot /\ ~in_sample_residuals
            /\ IsNone(IF binned_residuals THEN f.out_sample_residuals_by_bin_
                      ELSE f.out_sample_residuals_)
    THEN [f |-> f, raised |-> "ValueError", last_window_values |-> << >>,
          exog_values |-> None, prediction_index |-> << >>]
    ELSE predict_inputs(
             f, steps, SeriesTail(Val(lw0), f.window_size_diff),
             transform_numpy(SeriesTail(Val(lw0), f.window_size_diff).values,
                             f.transformer_y, FALSE),
             IF IsNone(f.differentiation) THEN 0 ELSE Val(f.differentiation),
             exog)

\* ForecasterAutoreg._create_predict_inputs.  The forecaster is returned too:
\* differentiator.fit_transform(last_window_values) refits the differentiator.
create_predict_inputs(f, steps, last_window, exog, predict_boot, in_sample_residuals, binned_residuals) ==
    checked_predict_inputs(
        f, steps,
        IF IsNone(last_window) THEN f.last_window_ ELSE last_window,
        exog,
        check_predict_input(
            f, steps,
            IF IsNone(last_window) THEN f.last_window_ ELSE last_window, exog),
        predict_boot, in_sample_residuals, binned_residuals)

\* a variant of step_write that does not write the prediction back into the
\* buffer last_window
step_write_no_feedback(cx, st, i, X, out, drew) ==
    [st EXCEPT !.predictions = [@ EXCEPT ![i + 1] = out],
               !.rows = Append(@, X),
               !.rng = IF drew THEN rng_step(@) ELSE @]

\* _recursive_predict, lines 1057-1062: pred += step_residual, then the
\* prediction is written to predictions[i] and to last_window[-(steps - i)]
step_write(cx, st, i, X, out, drew) ==
    [st EXCEPT !.last_window =
                   [@ EXCEPT ![NpPos(st.last_window, 0 - (cx.steps - i))] = out],
               !.predictions = [@ EXCEPT ![i + 1] = out],
               !.rows = Append(@, X),
               !.rng = IF drew THEN rng_step(@) ELSE @]

\* _recursive_predict, lines 1047-1055: the residual of the step, when
\* residuals are given: drawn from the pool of the predicted bin, or
\* residuals[i]
step_residual(cx, st, i, X, pred, predicted_bin) ==
    IF IsNone(cx.residuals) \/ pred = NaN
    THEN step_write(cx, st, i, X, pred, FALSE)
    ELSE IF ~cx.binned_residuals
    THEN step_write(cx, st, i, X, pred + Val(cx.residuals)[i + 1], FALSE)
    ELSE IF ~DictHas(Val(cx.residuals), predicted_bin)
    THEN [st EXCEPT !.raised = "KeyError", !.rows = Append(@, X)]
    ELSE IF DictVal(Val(cx.residuals), predicted_bin) = << >>
    THEN [st EXCEPT !.raised = "ValueError", !.rows = Append(@, X)]
    ELSE step_write(cx, st, i, X,
                    pred + rng_choice(st.rng, 0,
                                      DictVal(Val(cx.residuals), predicted_bin)),
                    TRUE)

\* a variant of step_predict that takes the residuals of the first bin
\* whatever the prediction is
step_predict_first_bin(cx, st, i, X, pred) ==
    step_residual(cx, st, i, X, pred, 0)

\* _recursive_predict, line 1045 and 1050-1052: the estimator is applied to
\* row X and the prediction is binned
step_predict(cx, st, i, X, pred) ==
    step_residual(cx, st, i, X, pred,
                  IF ~IsNone(cx.residuals) /\ cx.binned_residuals
                  THEN KBinsTransform(Val(cx.f.binner.bin_edges_), pred)
                  ELSE 0)

step_row(cx, st, i, X) ==
    step_predict(cx, st, i, X, RegressorPredict(cx.f.regressor, X))

\* One iteration i of the loop of _recursive_predict.  cx holds the arguments
\* (f, steps, exog, residuals, binned_residuals); st holds the buffer
\* last_window, the generator rng, the predictions written so far, the rows X
\* handed to the estimator, and the exception raised.
\* line 1032: X = last_window[-self.lags - (steps - i)], then exog[i, ]
recursive_predict_step(cx, st, i) ==
    step_row(cx, st, i,
             [c \in 1..Len(cx.f.lags) |->
                 st.last_window[NpPos(st.last_window,
                                      0 - cx.f.lags[c] - (cx.steps - i))]]
             \o (IF IsNone(cx.exog) THEN << >> ELSE Val(cx.exog)[i + 1]))

RECURSIVE recursive_predict_loop(_, _, _)
recursive_predict_loop(cx, st, i) ==
    IF i >= cx.steps \/ st.raised # "" THEN st
    ELSE recursive_predict_loop(cx, recursive_predict_step(cx, st, i), i + 1)

\* ForecasterAutoreg._recursive_predict(steps, last_window, exog, residuals,
\* binned_residuals, rng)
recursive_predict(f, steps, last_window, exog, residuals, binned_residuals, rng) ==
    recursive_predict_loop(
        [f |-> f, steps |-> steps, exog |-> exog, residuals |-> residuals,
         binned_residuals |-> binned_residuals],
        [last_window |-> last_window \o [i \in 1..steps |-> NaN], rng |-> rng,
         predictions |-> np_full(steps, NaN), rows |-> << >>,
         raised |-> ""],
        0)

\* the two inversions in the other order: the transformer first, the
\* differentiation second
inverse_predictions_transformer_first(f, predictions) ==
    LET inv == transform_numpy(predictions, f.transformer_y, TRUE)
    IN  IF IsNone(f.differentiation) THEN inv
        ELSE inverse_transform_next_window(Val(f.differentiator), inv)

\* the part of predict / predict_bootstrapping after _recursive_predict: undo
\* the differentiation and the transformation of one column of predictions
inverse_predictions(f, predictions) ==
    transform_numpy(
        IF IsNone(f.differentiation) THEN predictions
        ELSE inverse_transform_next_window(Val(f.differentiator), predictions),
        f.transformer_y, TRUE)

\* predict, lines 1170-1186: the predictions are brought back to the scale
\* of the series and labelled
predict_out(inp, run) ==
    [f |-> inp.f, raised |-> "",
     out |-> Some([data  |-> inverse_predictions(inp.f, run.predictions),
                   index |-> inp.prediction_index]),
     rows |-> run.rows]

\* predict, lines 1164-1168, on the inputs inp.  regressor.predict (line
\* 1045) raises in the first step when the estimator is not trained, or was
\* trained on another number of columns than the row has.
predict_with(inp, steps) ==
    IF inp.raised # ""
    THEN [f |-> inp.f, raised |-> inp.raised, out |-> None, rows |-> << >>]
    ELSE IF IsNone(inp.f.regressor.trained)
    THEN [f |-> inp.f, raised |-> "sklearn.NotFittedError", out |-> None,
          rows |-> << >>]
    ELSE IF Val(inp.f.regressor.trained).n_features
            # Len(inp.f.lags) + (IF IsNone(inp.exog_values) THEN 0 ELSE 1)
    THEN [f |-> inp.f, raised |-> "sklearn.ValueError", out |-> None,
          rows |-> << >>]
    ELSE predict_out(inp,
                     recursive_predict(inp.f, steps, inp.last_window_values,
                                       inp.exog_values, None, FALSE, 0))

\* ForecasterAutoreg.predict(steps, last_window, exog)
predict(f, steps, last_window, exog) ==
    predict_with(create_predict_inputs(f, steps, last_window, exog,
                                       FALSE, TRUE, FALSE),
                 steps)

\* create_predict_X, lines 1104-1122, after predict returned `predictions`:
\* the predictors are read from the window of _create_predict_inputs
\* followed by the predictions, X_predict = full_predictors[idx + len]
\* with idx = np.arange(-steps, 0)[:, None] - self.lags, then exog_values
create_predict_X_rows(f, steps, inp, predictions) ==
    LET full_predictors == inp.last_window_values \o predictions
    IN  [i \in 1..steps |->
            [c \in 1..Len(f.lags) |->
                full_predictors[NpPos(full_predictors,
                                      (0 - steps + (i - 1)) - f.lags[c])]]
            \o (IF IsNone(inp.exog_values) THEN << >>
                ELSE Val(inp.exog_values)[i])]

\* create_predict_X on the outcome p of self.predict (lines 1099-1103)
create_predict_X_after(p, steps, last_window, exog) ==
    IF p.raised # ""
    THEN [f |-> p.f, raised |-> p.raised, out |-> None, rows |-> << >>]
    ELSE LET inp == checked_predict_inputs(
                        p.f, steps,
                        IF IsNone(last_window) THEN p.f.last_window_
                        ELSE last_window,
                        exog, "", FALSE, FALSE, FALSE)
         IN  [f |-> inp.f, raised |-> "",
              out |-> Some([data  |-> create_predict_X_rows(
                                          inp.f, steps, inp, Val(p.out).data),
                            index |-> inp.prediction_index]),
              rows |-> p.rows]

\* ForecasterAutoreg.create_predict_X(steps, last_window, exog); rows are
\* the rows the estimator was handed by the predict call it makes
create_predict_X(f, steps, last_window, exog) ==
    create_predict_X_after(predict(f, steps, last_window, exog),
                           steps, last_window, exog)

\* range(n)
range(n) == [j \in 1..n |-> j - 1]

\* sampled_residuals[:, b] of rng.choice(a=residuals, size=(steps, n_boot)):
\* the matrix is filled row by row with consecutive draws
sampled_column(rng, residuals, steps, n_boot, b) ==
    [s \in 1..steps |-> rng_choice(rng, (s - 1) * n_boot + b, residuals)]

\* the result of replicate b is written to boot_predictions[:, b]; runs
\* keeps, for every replicate, the rows handed to the estimator and the
\* values _recursive_predict returned
boot_write(st, b, run) ==
    [rng |-> run.rng, raised |-> run.raised,
     boot_predictions |-> [st.boot_predictions EXCEPT ![b + 1] = run.predictions],
     runs |-> [st.runs EXCEPT ![b + 1] =
                  [rows |-> run.rows, predictions |-> run.predictions]]]

\* one iteration of the loop `for i in range(n_boot)`, for replicate b
boot_step(cx, st, b) ==
    boot_write(st, b,
               recursive_predict(
                   cx.f, cx.steps, cx.last_window, cx.exog,
                   IF cx.binned_residuals THEN cx.residuals_by_bin
                   ELSE Some(sampled_column(cx.rng0, Val(cx.residuals),
                                            cx.steps, cx.n_boot, b)),
                   cx.binned_residuals, st.rng))

\* The loop `for i in range(n_boot)` of predict_bootstrapping, the replicates
\* being run in the order given (range(n_boot) in the code); all replicates
\* share the generator rng.
RECURSIVE boot_loop(_, _, _, _)
boot_loop(cx, order, j, st) ==
    IF j > Len(order) \/ st.raised # "" THEN st
    ELSE boot_loop(cx, order, j + 1, boot_step(cx, st, order[j]))

\* a variant of boot_out that returns the replicates as the loop wrote them,
\* in the scale of the training: differenced and transformed
boot_out_not_inverted(inp, run, n_boot) ==
    IF run.raised # ""
    THEN [f |-> inp.f, raised |-> run.raised, out |-> None, rows |-> << >>]
    ELSE [f |-> inp.f, raised |-> "",
          out |-> Some([data  |-> run.boot_predictions,
                        index |-> inp.prediction_index]),
          rows |-> run.runs]

\* predict_bootstrapping, lines 1298-1318: the ensemble of the replicates
boot_out(inp, run, n_boot) ==
    IF run.raised # ""
    THEN [f |-> inp.f, raised |-> run.raised, out |-> None, rows |-> << >>]
    ELSE [f |-> inp.f, raised |-> "",
          out |-> Some([data  |-> [b \in 1..n_boot |->
                                      inverse_predictions(
                                          inp.f, run.boot_predictions[b])],
                        index |-> inp.prediction_index]),
          rows |-> run.runs]

\* a variant of boot_unset_pool in which a per-bin dict that is None is taken
\* as "no residuals" instead of being subscripted
boot_unset_pool_ignored(residuals, residuals_by_bin, binned_residuals) ==
    IF ~binned_residuals /\ (IsNone(residuals) \/ residuals = Some(<< >>))
    THEN "ValueError"
    ELSE ""

\* What predict_bootstrapping does with a pool that cannot be sampled:
\* rng.choice(a=residuals, ...) at lines 1274-1278 raises ValueError when the
\* flat pool is None or empty, and residuals[predicted_bin] at line 1053
\* raises TypeError in the first replicate when the per-bin dict is None
boot_unset_pool(residuals, residuals_by_bin, binned_residuals) ==
    IF ~binned_residuals /\ (IsNone(residuals) \/ residuals = Some(<< >>))
    THEN "ValueError"
    ELSE IF binned_residuals /\ IsNone(residuals_by_bin)
    THEN "TypeError"
    ELSE ""

\* predict_bootstrapping, lines 1265-1296: the pools, the generator, the
\* sampled residuals and the loop over the replicates
boot_with(inp, steps, n_boot, rng, residuals, residuals_by_bin, binned_residuals, order) ==
    IF inp.raised # ""
    THEN [f |-> inp.f, raised |-> inp.raised, out |-> None, rows |-> << >>]
    ELSE IF boot_unset_pool(residuals, residuals_by_bin, binned_residuals)
            = "ValueError"
    THEN [f |-> inp.f, raised |-> "ValueError", out |-> None, rows |-> << >>]
    ELSE IF IsNone(inp.f.regressor.trained)
    THEN [f |-> inp.f, raised |-> "sklearn.NotFittedError", out |-> None,
          rows |-> << >>]
    ELSE IF boot_unset_pool(residuals, residuals_by_bin, binned_residuals) # ""
    THEN [f |-> inp.f,
          raised |-> boot_unset_pool(residuals, residuals_by_bin,
                                     binned_residuals),
          out |-> None, rows |-> << >>]
    ELSE boot_out(
             inp,
             boot_loop(
                 [f |-> inp.f, steps |-> steps,
                  last_window |-> inp.last_window_values,
                  exog |-> inp.exog_values, n_boot |-> n_boot,
                  residuals |-> residuals,
                  residuals_by_bin |-> residuals_by_bin,
                  binned_residuals |-> binned_residuals, rng0 |-> rng],
                 order, 1,
                 [rng |-> IF binned_residuals THEN rng
                          ELSE rng_skip(rng, steps * n_boot),
                  raised |-> "",
                  boot_predictions |->
                      np_full(n_boot, np_full(steps, NaN)),
                  runs |-> np_full(n_boot, [rows |-> << >>,
                                            predictions |-> << >>])]),
             n_boot)

\* a variant of boot_rng that is not seeded with random_state: the state of
\* the generator comes from outside the call
boot_rng_unseeded(f, random_state) == default_rng(clock)

\* the generator of one predict_bootstrapping call:
\* rng = np.random.default_rng(seed=random_state)
boot_rng(f, random_state) == default_rng(random_state)

\* ForecasterAutoreg.predict_bootstrapping(steps, last_window, exog, n_boot,
\* random_state, in_sample_residuals, binned_residuals); `order` is the order
\* in which the replicates are computed
predict_bootstrapping(f, steps, last_window, exog, n_boot, random_state, in_sample_residuals, binned_residuals, order) ==
    boot_with(create_predict_inputs(f, steps, last_window, exog, TRUE,
                                    in_sample_residuals, binned_residuals),
              steps, n_boot, boot_rng(f, random_state),
              IF in_sample_residuals THEN f.in_sample_residuals_
              ELSE f.out_sample_residuals_,
              IF in_sample_residuals THEN f.in_sample_residuals_by_bin_
              ELSE f.out_sample_residuals_by_bin_,
              binned_residuals, order)

\* row s (1-based) of an ensemble: the values of the replicates at that step
boot_row(data, s) == [b \in 1..Len(data) |-> data[b][s]]

RECURSIVE MinSeq(_)
MinSeq(s) ==
    IF Len(s) = 1 THEN s[1] ELSE Min(Head(s), MinSeq(Tail(s)))

\* predict_interval, lines 1409-1414: the frame pred, lower_bound,
\* upper_bound for interval [0, 100]
interval_out(bt, pr, steps) ==
    IF pr.raised # "" THEN [f |-> pr.f, raised |-> pr.raised, out |-> None]
    ELSE [f |-> pr.f, raised |-> "",
          out |-> Some([data |-> [s \in 1..steps |->
                            << Val(pr.out).data[s],
                               MinSeq(boot_row(Val(bt.out).data, s)),
                               MaxSeq(boot_row(Val(bt.out).data, s)) >>],
                        index |-> Val(bt.out).index])]

\* predict_interval, lines 1402-1407: predict is called after the ensemble
interval_with(bt, steps, last_window, exog) ==
    IF bt.raised # "" THEN bt
    ELSE interval_out(bt, predict(bt.f, steps, last_window, exog), steps)

\* ForecasterAutoreg.predict_interval with interval [0, 100]
predict_interval(f, steps, last_window, exog, n_boot, random_state, in_sample_residuals, binned_residuals) ==
    interval_with(predict_bootstrapping(f, steps, last_window, exog, n_boot,
                                        random_state, in_sample_residuals,
                                        binned_residuals, range(n_boot)),
                  steps, last_window, exog)

\* predict_quantiles: the quantiles 0 and 1 of every row of the ensemble
quantiles_out(bt, steps) ==
    IF bt.raised # "" THEN bt
    ELSE [bt EXCEPT !.out =
             Some([data |-> [s \in 1..steps |->
                                << MinSeq(boot_row(Val(bt.out).data, s)),
                                   MaxSeq(boot_row(Val(bt.out).data, s)) >>],
                   index |-> Val(bt.out).index])]

\* ForecasterAutoreg.predict_quantiles with quantiles [0, 1]
predict_quantiles(f, steps, last_window, exog, n_boot, random_state, in_sample_residuals, binned_residuals) ==
    quantiles_out(predict_bootstrapping(f, steps, last_window, exog, n_boot,
                                        random_state, in_sample_residuals,
                                        binned_residuals, range(n_boot)),
                  steps)

\* predict_dist: distribution.fit on every row of the ensemble, here the
\* location and the scale of the row
dist_out(bt, steps) ==
    IF bt.raised # "" THEN bt
    ELSE [bt EXCEPT !.out =
             Some([data |-> [s \in 1..steps |->
                                << SumSeq(boot_row(Val(bt.out).data, s))
                                       \div Len(Val(bt.out).data),
                                   MaxSeq(boot_row(Val(bt.out).data, s))
                                       - MinSeq(boot_row(Val(bt.out).data, s)) >>],
                   index |-> Val(bt.out).index])]

\* ForecasterAutoreg.predict_dist
predict_dist(f, steps, last_window, exog, n_boot, random_state, in_sample_residuals, binned_residuals) ==
    dist_out(predict_bootstrapping(f, steps, last_window, exog, n_boot,
                                   random_state, in_sample_residuals,
                                   binned_residuals, range(n_boot)),
             steps)

-----------------------------------------------------------------------------
(* ForecasterAutoreg: out-of-sample residual pools *)

\* the 'residuals' column of the frame, transformed with transformer_y when
\* transform is True
RECURSIVE ResidualColumn(_)
ResidualColumn(blocks) ==
    IF blocks = << >> THEN << >>
    ELSE ArrConcat(ArrFull(Head(blocks).r, Head(blocks).c),
                   ResidualColumn(Tail(blocks)))

\* the loop `for k, v in residuals_by_bin.items()` that appends the new
\* residuals of every bin to the stored ones (lines 1804-1818)
RECURSIVE AppendByBin(_, _)
AppendByBin(stored, residuals_by_bin) ==
    IF residuals_by_bin = << >> THEN stored
    ELSE LET k == Head(residuals_by_bin).k
             v == Head(residuals_by_bin).v
             free_space == Max(0, BinCap - ArrLen(DictVal(stored, k)))
         IN  AppendByBin(
                 IF DictHas(stored, k)
                 THEN DictSet(stored, k,
                              ArrConcat(DictVal(stored, k),
                                        ArrPrefix(v, free_space)))
                 ELSE DictSet(stored, k, v),
                 Tail(residuals_by_bin))

\* the loop that adds an empty array for every in-sample bin that has no
\* out-of-sample residuals (lines 1832-1834)
RECURSIVE AddEmptyBins(_, _)
AddEmptyBins(d, in_sample) ==
    IF in_sample = << >> THEN d
    ELSE AddEmptyBins(IF DictHas(d, Head(in_sample).k) THEN d
                      ELSE DictSet(d, Head(in_sample).k, << >>),
                      Tail(in_sample))

\* empty_bins = [k for k, v in d.items() if len(v) == 0]
EmptyBins(d) == SelectSeq([j \in 1..Len(d) |-> d[j].k],
                          LAMBDA k : DictVal(d, k) = << >>)

\* rng.choice(a, size=BinCap, replace=True): samples that stand for the
\* outcomes, kept in the order of a: all draws hit one value of a, or they
\* are split evenly over its first two values
SamplesWithReplacement(a) ==
    { ArrFull(v, BinCap) : v \in ArrValues(a) }
    \cup (IF Len(a) >= 2
          THEN { << Run(a[1].v, BinCap \div 2),
                    Run(a[2].v, BinCap - BinCap \div 2) >> }
          ELSE {})

\* the empty bins are left empty
FillBins_skipped(d, sample) == d

\* every empty bin of d receives the sample (the generator is re-seeded with
\* the same seed before every draw)
FillBins(d, sample) ==
    [j \in 1..Len(d) |-> IF d[j].v = << >> THEN [k |-> d[j].k, v |-> sample]
                         ELSE d[j]]

\* the warnings about transform (lines 1752-1764)
TransformWarnings(f, transform) ==
    IF IsNone(f.transformer_y) THEN << >>
    ELSE IF transform THEN << [kind |-> "residuals_will_be_transformed"] >>
    ELSE << [kind |-> "transform_is_false"] >>

\* ForecasterAutoreg.set_out_sample_residuals(residuals, y_pred, append,
\* transform): data is the frame of the residuals and, when y_pred is given,
\* of their predictions, as (residual, prediction) blocks.  The outcomes
\* [f, raised, warned], one per outcome of the random samples.
set_out_sample_residuals(f, data, with_y_pred, append, transform) ==
    LET tw   == TransformWarnings(f, transform)
        rows == IF transform /\ ~IsNone(f.transformer_y)
                THEN [j \in 1..Len(data) |->
                        Block(data[j].r - Val(f.transformer_y).center,
                              data[j].p, data[j].c)]
                ELSE data
        residuals == ResidualColumn(rows)
        flat(sample) ==
            IF append /\ ~IsNone(f.out_sample_residuals_)
            THEN ArrConcat(Val(f.out_sample_residuals_),
                           ArrPrefix(sample,
                                     Max(0, FlatCap
                                            - ArrLen(Val(f.out_sample_residuals_)))))
            ELSE sample
        edges == Val(f.binner.bin_edges_)
        residuals_by_bin == GroupByBin(rows, edges)
        merged == IF append /\ ~IsNone(f.out_sample_residuals_by_bin_)
                  THEN AppendByBin(Val(f.out_sample_residuals_by_bin_),
                                   residuals_by_bin)
                  ELSE residuals_by_bin
        binned(capped) ==
            LET pool    == DictConcat(capped)
                f1      == [f EXCEPT !.out_sample_residuals_by_bin_ = Some(capped),
                                     !.out_sample_residuals_ = Some(pool)]
                withAll == AddEmptyBins(capped, Val(f.in_sample_residuals_by_bin_))
                empty_bins == EmptyBins(withAll)
            IN  IF IsNone(f.in_sample_residuals_by_bin_)
                THEN { [f |-> f1, raised |-> "AttributeError", warned |-> tw] }
                ELSE IF empty_bins = << >>
                THEN { [f |-> [f1 EXCEPT !.out_sample_residuals_by_bin_ =
                                              Some(withAll)],
                        raised |-> "", warned |-> tw] }
                ELSE { [f |-> [f1 EXCEPT !.out_sample_residuals_by_bin_ =
                                              Some(FillBins(withAll, sample))],
                        raised |-> "",
                        warned |-> Append(tw,
                            [kind |-> "empty_bins", bins |-> empty_bins,
                             intervals |->
                                 [j \in 1..Len(empty_bins) |->
                                     DictVal(Val(f.binner_intervals),
                                             empty_bins[j])]])] :
                       sample \in SamplesWithReplacement(pool) }
    IN  IF with_y_pred /\ ~f.is_fitted
        THEN { [f |-> f, raised |-> "NotFittedError", warned |-> << >>] }
        ELSE IF ~with_y_pred
        THEN { [f |-> [f EXCEPT !.out_sample_residuals_ = Some(flat(sample))],
                raised |-> "", warned |-> tw] :
               sample \in IF ArrLen(residuals) > FlatCap
                          THEN SamplesWithoutReplacement(residuals, FlatCap)
                          ELSE { residuals } }
        ELSE IF IsNone(f.binner.bin_edges_)
        THEN { [f |-> f, raised |-> "NotFittedError", warned |-> tw] }
        ELSE IF data = << >>
        THEN { [f |-> f, raised |-> "ValueError", warned |-> tw] }
        ELSE UNION { binned(capped) : capped \in CapPerBin(merged) }

\* What a caller hands to set_out_sample_residuals besides the values: the
\* types of residuals and y_pred, how much longer than residuals y_pred is,
\* and whether the indexes of the two are equal
Passed(residuals_type, y_pred_type, y_pred_longer, same_index) ==
    [residuals_type |-> residuals_type, y_pred_type |-> y_pred_type,
     y_pred_longer |-> y_pred_longer, same_index |-> same_index]

\* set_out_sample_residuals, lines 1711-1734: the checks of the arguments;
\* the error raised, "" when there is none
check_set_out_input(inp) ==
    IF inp.residuals_type \notin { "ndarray", "Series" } THEN "TypeError"
    ELSE IF inp.y_pred_type \notin { "ndarray", "Series", "NoneType" }
    THEN "TypeError"
    ELSE IF inp.y_pred_type # "NoneType" /\ inp.y_pred_longer # 0
    THEN "ValueError"
    ELSE IF inp.residuals_type = "Series" /\ inp.y_pred_type = "Series"
            /\ ~inp.same_index
    THEN "ValueError"
    ELSE ""

\* a variant of set_out_sample_residuals_of that stores the residuals it is
\* given and checks the arguments afterwards
set_out_sample_residuals_checked_late(f, inp, data, append, transform) ==
    { [f |-> r.f,
       raised |-> IF check_set_out_input(inp) # ""
                  THEN check_set_out_input(inp) ELSE r.raised,
       warned |-> r.warned] :
      r \in set_out_sample_residuals(f, data, inp.y_pred_type = "ndarray",
                                     append, transform) }

\* ForecasterAutoreg.set_out_sample_residuals called with arguments of any
\* type: the checks of lines 1711-1734 come first
set_out_sample_residuals_of(f, inp, data, append, transform) ==
    IF check_set_out_input(inp) # ""
    THEN { [f |-> f, raised |-> check_set_out_input(inp), warned |-> << >>] }
    ELSE set_out_sample_residuals(f, data, inp.y_pred_type # "NoneType",
                                  append, transform)

-----------------------------------------------------------------------------
(* ForecasterAutoreg: configuration *)

\* ForecasterAutoreg.set_params(params): the estimator is replaced by a
\* clone, which is not trained, and the clone takes the parameters
set_params(f, params) ==
    [f EXCEPT !.regressor = [kind |-> params, trained |-> None]]

\* a variant of set_fit_kwargs that updates the stored dict with the
\* selection: the keys that are not passed keep their value
set_fit_kwargs_updated(f, fit_kwargs) ==
    [f EXCEPT !.fit_kwargs =
        SelectSeq(@, LAMBDA item :
                     item.k \notin DictKeys(
                         check_select_fit_kwargs(f.regressor, Some(fit_kwargs))))
        \o check_select_fit_kwargs(f.regressor, Some(fit_kwargs))]

\* ForecasterAutoreg.set_fit_kwargs(fit_kwargs) and
\* ForecasterAutoregMultiVariate.set_fit_kwargs(fit_kwargs)
set_fit_kwargs(f, fit_kwargs) ==
    [f EXCEPT !.fit_kwargs =
        check_select_fit_kwargs(f.regressor, Some(fit_kwargs))]

\* ForecasterAutoreg.set_lags(lags), for lags given as a list
set_lags(f, lags) ==
    [f EXCEPT !.lags = lags,
              !.max_lag = MaxSeq(lags),
              !.window_size = MaxSeq(lags),
              !.window_size_diff =
                  MaxSeq(lags) + (IF IsNone(f.differentiation) THEN 0
                                  ELSE Val(f.differentiation))]

-----------------------------------------------------------------------------
(* ForecasterAutoregMultiVariate: direct forecasting, one estimator per step *)

\* A pandas DataFrame of series with a RangeIndex of step 1: the label of the
\* first row and the columns, a dict name |-> values
Frame(start, columns) == [start |-> start, columns |-> columns]
FrameLen(df) == Len(df.columns[1].v)

\* df.iloc[-n:, ][names]
FrameTail(df, n, names) ==
    Frame(df.start + FrameLen(df) - Min(n, FrameLen(df)),
          [j \in 1..Len(names) |->
              [k |-> names[j], v |-> LastN(DictVal(df.columns, names[j]), n)]])

\* The estimator of one step is a black box; two deterministic estimators
\* stand for it: a constant model (the mean of its target) and a weighted sum
\* of the predictors with a fitted intercept.
DirectRegressorFit(reg, X, y) ==
    [reg EXCEPT !.trained =
        Some(IF reg.kind = "const" THEN SumSeq(y) \div Len(y)
             ELSE y[1] - WeightedSum(X[1], 1))]

DirectRegressorPredict(reg, X) ==
    IF reg.kind = "const" THEN Val(reg.trained)
    ELSE WeightedSum(X, 1) + Val(reg.trained)

\* ForecasterAutoregMultiVariate.__init__, lines 358-374: window_size is the
\* largest of max_lag and max_size_window_features (those that are not
\* None), plus the order of differentiation
init_window_size(max_lag, max_size_window_features, differentiation) ==
    (IF IsNone(max_size_window_features) THEN max_lag
     ELSE Max(max_lag, Val(max_size_window_features)))
    + (IF IsNone(differentiation) THEN 0 ELSE Val(differentiation))

\* ForecasterAutoregMultiVariate.__init__(regressor, level, steps, lags,
\* transformer_series)
ForecasterAutoregMultiVariate(regressor, level, steps, lags, max_size_window_features, transformer_series, weight_func, differentiation) ==
    [class              |-> "ForecasterAutoregMultiVariate",
     regressor          |-> [kind |-> regressor, trained |-> None],
     level              |-> level,
     steps              |-> steps,
     lags               |-> lags,
     lags_              |-> None,
     max_lag            |-> MaxSeq(lags),
     max_size_window_features |-> max_size_window_features,
     window_size        |-> init_window_size(MaxSeq(lags),
                                             max_size_window_features,
                                             differentiation),
     differentiation    |-> differentiation,
     weight_func        |-> weight_func,
     fit_kwargs         |-> check_select_fit_kwargs(
                                [kind |-> regressor, trained |-> None], None),
     transformer_series |-> transformer_series,
     transformer_series_ |-> None,
     regressors_        |-> [step \in 1..steps |->
                                [kind |-> regressor, trained |-> None,
                                 step |-> step]],
     last_window_       |-> None,
     index_type_        |-> None,
     index_freq_        |-> None,
     training_range_    |-> None,
     series_names_in_   |-> None,
     exog_in_           |-> FALSE,
     X_train_series_names_in_ |-> None,
     in_sample_residuals_  |-> [step \in 1..steps |-> None],
     out_sample_residuals_ |-> None,
     is_fitted          |-> FALSE,
     fit_date           |-> None]

\* fit, lines 1321-1336: the reset of the fitted attributes
direct_fit_reset(f) ==
    [f EXCEPT !.lags_ = None,
              !.last_window_ = None,
              !.index_type_ = None,
              !.index_freq_ = None,
              !.training_range_ = None,
              !.series_names_in_ = None,
              !.exog_in_ = FALSE,
              !.X_train_series_names_in_ = None,
              !.in_sample_residuals_ = [step \in 1..f.steps |-> None],
              !.is_fitted = FALSE,
              !.fit_date = None]

\* ForecasterAutoregMultiVariate._create_lags for one series: row r of the lag
\* matrix, and row r of the targets of the steps
direct_lags_row(f, y, r) ==
    [i \in 1..Len(f.lags) |-> y[f.window_size - f.lags[i] + r]]

\* a variant of direct_target that gives every step the target of the
\* first one
direct_target_first(f, y, step, r) == y[f.window_size + r]

direct_target(f, y, step, r) == y[f.window_size + step - 1 + r]

\* the names of the series of a frame, in column order
ColumnNames(df) == [j \in 1..Len(df.columns) |-> df.columns[j].k]

RECURSIVE FlattenRows(_)
FlattenRows(parts) ==
    IF parts = << >> THEN << >> ELSE Head(parts) \o FlattenRows(Tail(parts))

\* wf.transform_batch(y) of the window feature that stands for the window
\* features of a forecaster: the sum of the `size` values before each
\* position, one row per position that has `size` values before it
transform_batch(y, size) ==
    [t \in 1..(Len(y) - size) |-> SumSeq(SubSeq(y, t, t + size - 1))]

\* _create_train_X_y, lines 920-931, and _create_window_features, lines
\* 711-731: the window features of y_values[n_diff:end_wf], the last
\* len_train_index rows
create_window_features(f, y_values, len_train_index) ==
    LastN(transform_batch(
              SubSeq(y_values,
                     (IF IsNone(f.differentiation) THEN 0
                      ELSE Val(f.differentiation)) + 1,
                     Len(y_values) - (f.steps - 1)),
              Val(f.max_size_window_features)),
          len_train_index)

\* _create_train_X_y, lines 892-905: one series is transformed by its
\* transformer and then differenced
direct_train_values(f, y, transformer) ==
    IF IsNone(f.differentiation)
    THEN transform_numpy(y, transformer, FALSE)
    ELSE DifferentiatorTransform(Val(f.differentiation),
                                 transform_numpy(y, transformer, FALSE))

\* ForecasterAutoregMultiVariate._create_train_X_y, followed by
\* filter_train_X_y_for_step for every step: the transformers are fitted
\* unless the forecaster is fitted, the rows of X_train hold, series by
\* series, the lags and the window features, and the matrix of step s adds
\* the exog of the time that step s predicts.
direct_create_train_X_y(f, series, exog) ==
    LET names == ColumnNames(series)
        n     == FrameLen(series)
        tr    == IF f.is_fitted THEN Val(f.transformer_series_)
                 ELSE [j \in 1..Len(names) |->
                         [k |-> names[j],
                          v |-> IF f.transformer_series
                                THEN Some([fitted |-> TRUE,
                                           center |-> TransformerFit(
                                               series.columns[j].v).center])
                                ELSE None]]
        unfit == [j \in 1..Len(names) |->
                    [k |-> names[j],
                     v |-> IF f.transformer_series
                           THEN Some([fitted |-> FALSE, center |-> 0])
                           ELSE None]]
        lags_ == [j \in 1..Len(names) |-> [k |-> names[j], v |-> f.lags]]
        yt(j) == direct_train_values(f, series.columns[j].v, tr[j].v)
        n_rows == n - f.window_size - (f.steps - 1)
        level == DictGet(series.columns, f.level)
        X_col(j, r) ==
            direct_lags_row(f, yt(j), r)
            \o (IF IsNone(f.max_size_window_features) THEN << >>
                ELSE << create_window_features(f, yt(j), n_rows)[r] >>)
        X_lags(r) == FlattenRows([j \in 1..Len(names) |-> X_col(j, r)])
        X_step(step) ==
            [r \in 1..n_rows |->
                IF IsNone(exog) THEN X_lags(r)
                ELSE X_lags(r) \o Val(exog)[f.window_size + step - 1 + r]]
        y_step(step) == [r \in 1..n_rows |-> direct_target(f, yt(level), step, r)]
        none == [step \in 1..f.steps |-> << >>]
    IN  IF n < f.window_size + f.steps
        THEN [f |-> f, raised |-> "ValueError", X_train |-> none, y_train |-> none]
        ELSE IF f.level \notin DictKeys(series.columns)
        THEN [f |-> f, raised |-> "ValueError", X_train |-> none, y_train |-> none]
        ELSE IF ~IsNone(exog) /\ Len(Val(exog)) # n
        THEN [f |-> [f EXCEPT !.lags_ = Some(lags_),
                              !.transformer_series_ =
                                  IF f.is_fitted THEN @ ELSE Some(unfit)],
              raised |-> "ValueError", X_train |-> none, y_train |-> none]
        ELSE [f |-> [f EXCEPT !.lags_ = Some(lags_),
                              !.transformer_series_ = Some(tr),
                              !.exog_in_ = ~IsNone(exog)],
              raised |-> "",
              X_train |-> [step \in 1..f.steps |-> X_step(step)],
              y_train |-> [step \in 1..f.steps |-> y_step(step)]]

\* the in-sample residuals of one step: y_train_step - regressor.predict
RECURSIVE direct_residuals(_, _, _)
direct_residuals(reg, X, y) ==
    IF X = << >> THEN << >>
    ELSE ArrConcat(ArrFull(Head(y) - DirectRegressorPredict(reg, Head(X)), 1),
                   direct_residuals(reg, Tail(X), Tail(y)))

\* The weights a weight_func gives to the n_rows rows of a frame whose
\* index starts at index_start: weight_func is called with the index of the
\* frame (create_sample_weights, line 1260), and "index" weighs every row
\* by its position in the series
DirectWeightFunc(weight_func, index_start, n_rows) ==
    [r \in 1..n_rows |-> index_start + r - 1]

\* regressor.fit(X, y, sample_weight) of the estimators that stand for the
\* base regressor (fit_forecaster, lines 1381-1393): the constant model
\* learns the weighted mean of its target
DirectRegressorFitWeighted(reg, X, y, sample_weight) ==
    IF IsNone(sample_weight) THEN DirectRegressorFit(reg, X, y)
    ELSE [reg EXCEPT !.trained =
             Some(IF reg.kind = "const"
                  THEN SumSeq([r \in 1..Len(y) |-> Val(sample_weight)[r] * y[r]])
                           \div SumSeq(Val(sample_weight))
                  ELSE y[1] - WeightedSum(X[1], 1))]

\* the index of y_train[step] starts at position window_size + step - 1 of
\* the series (_create_train_X_y, line 1004)
StepIndexStart(f, step) == f.window_size + step - 1

\* the jobs of a fit that has built its training matrices (fit, lines
\* 1414-1425): X_train and y_train are handed to every job, X_index is
\* where the index of the X_train the jobs share starts (line 908), and
\* every job is about to run fit_forecaster with regressor=copy(self.regressor)
StartedJobs(f, tr, series, store_last_window, store_in_sample_residuals) ==
    [X_train |-> tr.X_train,
     y_train |-> tr.y_train,
     X_index |-> f.window_size + f.steps - 1,
     series  |-> series,
     store_last_window |-> store_last_window,
     store_in_sample_residuals |-> store_in_sample_residuals,
     job |-> [step \in 1..f.steps |->
                 [pc |-> "filter", own_index |-> None, sample_weight |-> None,
                  regressor |-> [kind |-> f.regressor.kind, trained |-> None,
                                 step |-> step],
                  residuals |-> None]]]

\* fit_forecaster, lines 1374-1379, filter_train_X_y_for_step, lines
\* 1113-1137: without exog X_train_step is the X_train that the jobs share
\* and `X_train_step.index = y_train_step.index` sets the index of that
\* frame; with exog X_train_step is a new frame (X_train.iloc[:, idx])
job_filter(f, jb, step) ==
    IF ~f.exog_in_
    THEN [jb EXCEPT !.job[step].pc = "weights",
                    !.X_index = StepIndexStart(f, step)]
    ELSE [jb EXCEPT !.job[step].pc = "weights",
                    !.job[step].own_index = Some(StepIndexStart(f, step))]

\* fit_forecaster, line 1380, create_sample_weights, lines 1257-1276:
\* weight_func is called with the index X_train_step has at this moment
job_weights(f, jb, step) ==
    [jb EXCEPT !.job[step].pc = "fit",
               !.job[step].sample_weight =
                   IF IsNone(f.weight_func) THEN None
                   ELSE Some(DirectWeightFunc(
                            Val(f.weight_func),
                            IF IsNone(jb.job[step].own_index) THEN jb.X_index
                            ELSE Val(jb.job[step].own_index),
                            Len(jb.y_train[step])))]

\* the estimator of a job after regressor.fit (lines 1381-1393)
job_regressor(jb, step) ==
    DirectRegressorFitWeighted(jb.job[step].regressor, jb.X_train[step],
                               jb.y_train[step], jb.job[step].sample_weight)

\* fit_forecaster, lines 1381-1412: the estimator of the job is fitted on
\* the target of its step, and the residuals are computed
job_fit(jb, step) ==
    [jb EXCEPT !.job[step].pc = "done",
               !.job[step].regressor = job_regressor(jb, step),
               !.job[step].residuals =
                   IF jb.store_in_sample_residuals
                   THEN Some(direct_residuals(job_regressor(jb, step),
                                              jb.X_train[step],
                                              jb.y_train[step]))
                   ELSE None]

\* fit, lines 1427-1461: the estimators and residuals of the jobs and the
\* metadata of the training data are stored in the forecaster
direct_fit_merge(f, regs, capped, series, store_last_window, store_in_sample_residuals, now) ==
    [f EXCEPT
        !.regressors_ = regs,
        !.in_sample_residuals_ =
            IF store_in_sample_residuals
            THEN [step \in 1..f.steps |-> Some(capped[step].v)]
            ELSE @,
        !.series_names_in_ = Some(ColumnNames(series)),
        !.X_train_series_names_in_ = Some(ColumnNames(series)),
        !.is_fitted = TRUE,
        !.fit_date = Some(now),
        !.training_range_ = Some(<< 0, FrameLen(series) - 1 >>),
        !.index_type_ = Some("RangeIndex"),
        !.index_freq_ = Some(1),
        !.last_window_ =
            IF store_last_window
            THEN Some(FrameTail(series, f.window_size, ColumnNames(series)))
            ELSE @]

\* ForecasterAutoregMultiVariate.fit(series, exog, store_last_window,
\* store_in_sample_residuals), the jobs being run one after another and
\* the forecaster having no weight_func: the outcomes [f, raised]
direct_fit(f, series, exog, store_last_window, store_in_sample_residuals, now) ==
    LET tr   == direct_create_train_X_y(direct_fit_reset(f), series, exog)
        regs == [step \in 1..f.steps |->
                    DirectRegressorFit(f.regressors_[step], tr.X_train[step],
                                       tr.y_train[step])]
        res  == [step \in 1..f.steps |->
                    [k |-> step,
                     v |-> direct_residuals(regs[step], tr.X_train[step],
                                            tr.y_train[step])]]
    IN  IF tr.raised # "" THEN { [f |-> tr.f, raised |-> tr.raised] }
        ELSE { [f |-> direct_fit_merge(tr.f, regs, capped, series,
                                       store_last_window,
                                       store_in_sample_residuals, now),
                raised |-> ""] :
                 capped \in CapDict(res, FlatCap) }

\* utils.prepare_steps_direct(steps, max_step): None is every step
prepare_steps_direct(steps, max_step) ==
    IF IsNone(steps) THEN [j \in 1..max_step |-> j] ELSE Val(steps)

\* utils.check_predict_input for a direct forecaster
direct_check_predict_input(f, steps, last_window, exog) ==
    IF ~f.is_fitted THEN "NotFittedError"
    ELSE IF steps = << >> THEN "ValueError"
    ELSE IF MinSeq(steps) < 1 \/ MaxSeq(steps) > f.steps THEN "ValueError"
    ELSE IF IsNone(exog) # ~f.exog_in_ THEN "ValueError"
    ELSE IF IsNone(last_window) THEN "ValueError"
    ELSE IF \E j \in 1..Len(Val(f.X_train_series_names_in_)) :
                Val(f.X_train_series_names_in_)[j]
                    \notin DictKeys(Val(last_window).columns)
         THEN "ValueError"
    ELSE IF FrameLen(Val(last_window)) < f.window_size THEN "ValueError"
    ELSE IF ~IsNone(exog) /\ Len(Val(exog)) < MaxSeq(steps) THEN "ValueError"
    ELSE ""

\* ForecasterAutoregMultiVariate._create_predict_inputs: the row of every
\* requested step and the labels of the predictions.  self.lags_[serie]
\* (line 1553) raises IndexError when lags_ is not a dict of the series.
direct_create_predict_inputs(f, steps, last_window, exog) ==
    LET lw0   == IF IsNone(last_window) THEN f.last_window_ ELSE last_window
        chk   == direct_check_predict_input(f, steps, lw0, exog)
        names == Val(f.X_train_series_names_in_)
        lw    == FrameTail(Val(lw0), f.window_size, names)
        serie(j) == transform_numpy(lw.columns[j].v,
                                    DictVal(Val(f.transformer_series_), names[j]),
                                    FALSE)
        lagsOf(j) == DictVal(Val(f.lags_), names[j])
        X_lags == FlattenRows([j \in 1..Len(names) |->
                     [i \in 1..Len(lagsOf(j)) |->
                         serie(j)[NpPos(serie(j), 0 - lagsOf(j)[i])]]])
    IN  IF chk # ""
        THEN [raised |-> chk, Xs |-> << >>, prediction_index |-> << >>]
        ELSE IF \E j \in 1..Len(names) : ~DictHas(Val(f.lags_), names[j])
        THEN [raised |-> "IndexError", Xs |-> << >>, prediction_index |-> << >>]
        ELSE [raised |-> "",
              Xs |-> [j \in 1..Len(steps) |->
                         IF IsNone(exog) THEN X_lags
                         ELSE X_lags \o Val(exog)[steps[j]]],
              prediction_index |->
                  [j \in 1..Len(steps) |->
                      lw.start + FrameLen(lw) + steps[j] - 1]]

\* a variant of direct_regressors that takes the estimators of the first
\* horizons instead of those of the requested ones
direct_regressors_first(f, steps) == [j \in 1..Len(steps) |-> f.regressors_[j]]

\* predict, line 1713: regressors = [self.regressors_[step] for step in steps]
direct_regressors(f, steps) == [j \in 1..Len(steps) |-> f.regressors_[steps[j]]]

\* ForecasterAutoregMultiVariate.predict(steps, last_window, exog); rows are
\* the estimators invoked, in order, each with the row it was given.  An
\* estimator trained on rows with window-feature columns rejects the rows of
\* predict, which have none.
direct_predict(f, steps, last_window, exog) ==
    LET steps_ == prepare_steps_direct(steps, f.steps)
        inp == direct_create_predict_inputs(f, steps_, last_window, exog)
        regressors == direct_regressors(f, steps_)
        predictions == [j \in 1..Len(steps_) |->
                           DirectRegressorPredict(regressors[j], inp.Xs[j])]
    IN  IF inp.raised # ""
        THEN [f |-> f, raised |-> inp.raised, out |-> None, rows |-> << >>]
        ELSE IF \E j \in 1..Len(steps_) : IsNone(regressors[j].trained)
        THEN [f |-> f, raised |-> "sklearn.NotFittedError", out |-> None,
              rows |-> << >>]
        ELSE IF ~IsNone(f.max_size_window_features)
        THEN [f |-> f, raised |-> "sklearn.ValueError", out |-> None,
              rows |-> [j \in 1..Len(steps_) |->
                           [step |-> regressors[j].step, X |-> inp.Xs[j]]]]
        ELSE [f |-> f, raised |-> "",
              out |-> Some([data  |-> transform_numpy(
                                          predictions,
                                          DictVal(Val(f.transformer_series_),
                                                  f.level),
                                          TRUE),
                            index |-> inp.prediction_index]),
              rows |-> [j \in 1..Len(steps_) |->
                           [step |-> regressors[j].step, X |-> inp.Xs[j]]]]

\* predict_bootstrapping, lines 1850-1861: residuals[step] is None, or holds
\* a None or a NaN
direct_bad_residuals(residuals, step) ==
    \/ IsNone(residuals[step])
    \/ ArrCount(Val(residuals[step]), NaN) > 0

\* a variant of direct_check_residuals that examines the pool of every step
\* of the forecaster, requested or not
direct_check_residuals_all_steps(f, steps, use_in_sample_residuals) ==
    IF ~use_in_sample_residuals /\ IsNone(f.out_sample_residuals_)
    THEN "ValueError"
    ELSE IF \E step \in 1..f.steps :
                direct_bad_residuals(
                    IF use_in_sample_residuals THEN f.in_sample_residuals_
                    ELSE Val(f.out_sample_residuals_), step)
    THEN "ValueError"
    ELSE IF \E j \in 1..Len(steps) : steps[j] \notin 1..f.steps
    THEN "ValueError"
    ELSE ""

\* predict_bootstrapping, lines 1816-1861: the checks of the selected pool,
\* made for the requested steps of a fitted forecaster: the pool is a dict
\* (not None), it has a key for every requested step, and the residuals of
\* every requested step are not None and hold no None and no NaN
direct_check_residuals(f, steps, use_in_sample_residuals) ==
    IF ~use_in_sample_residuals /\ IsNone(f.out_sample_residuals_)
    THEN "ValueError"
    ELSE IF \E j \in 1..Len(steps) : steps[j] \notin 1..f.steps
    THEN "ValueError"
    ELSE IF \E j \in 1..Len(steps) :
                direct_bad_residuals(
                    IF use_in_sample_residuals THEN f.in_sample_residuals_
                    ELSE Val(f.out_sample_residuals_), steps[j])
    THEN "ValueError"
    ELSE ""

\* ForecasterAutoregMultiVariate.predict_bootstrapping(steps, last_window,
\* exog, n_boot, random_state, use_in_sample_residuals); rows are the
\* estimators invoked
direct_predict_bootstrapping(f, steps, last_window, exog, n_boot, random_state, use_in_sample_residuals) ==
    LET steps_ == prepare_steps_direct(steps, f.steps)
        residuals == IF use_in_sample_residuals THEN f.in_sample_residuals_
                     ELSE Val(f.out_sample_residuals_)
        pr  == direct_predict(f, Some(steps_), last_window, exog)
        tr  == DictVal(Val(f.transformer_series_), f.level)
        base == transform_numpy(Val(pr.out).data, tr, FALSE)
        rng == default_rng(random_state)
        failed(e, rows) == [f |-> f, raised |-> e, out |-> None, rows |-> rows]
    IN  IF f.is_fitted
           /\ direct_check_residuals(f, steps_, use_in_sample_residuals) # ""
        THEN failed(direct_check_residuals(f, steps_, use_in_sample_residuals),
                    << >>)
        ELSE IF pr.raised # "" THEN failed(pr.raised, pr.rows)
        ELSE IF \E j \in 1..Len(steps_) : Val(residuals[steps_[j]]) = << >>
        THEN failed("ValueError", pr.rows)
        ELSE [f |-> f, raised |-> "",
              out |-> Some([data |->
                  [b \in 1..n_boot |->
                      transform_numpy(
                          [j \in 1..Len(steps_) |->
                              base[j] + rng_choice(rng, (j - 1) * n_boot + b - 1,
                                                   Val(residuals[steps_[j]]))],
                          tr, TRUE)],
                  index |-> Val(pr.out).index]),
              rows |-> pr.rows]

\* the loop `for key, value in residuals.items()` of set_out_sample_residuals
\* (lines 2380-2396), the sampled values being given
RECURSIVE direct_store_residuals(_, _, _)
direct_store_residuals(stored, residuals, append) ==
    IF residuals = << >> THEN stored
    ELSE LET key   == Head(residuals).k
             value == Head(residuals).v
             old   == stored[key]
             new   == IF append /\ ~IsNone(old)
                      THEN ArrConcat(Val(old),
                                     ArrPrefix(value,
                                               Max(0, FlatCap - ArrLen(Val(old)))))
                      ELSE value
         IN  direct_store_residuals([stored EXCEPT ![key] = Some(new)],
                                    Tail(residuals), append)

\* ForecasterAutoregMultiVariate.set_out_sample_residuals(residuals, append,
\* transform): residuals is a dict step |-> array.  The outcomes
\* [f, raised, warned].
direct_set_out_sample_residuals(f, residuals, append, transform) ==
    LET stored == IF IsNone(f.out_sample_residuals_)
                  THEN np_full(f.steps, None)
                  ELSE Val(f.out_sample_residuals_)
        tr     == DictVal(Val(f.transformer_series_), f.level)
        kept   == SelectSeq(residuals, LAMBDA item : item.k \in 1..f.steps)
        values == IF transform
                  THEN [j \in 1..Len(kept) |->
                          [k |-> kept[j].k, v |-> transform_residuals(kept[j].v, tr)]]
                  ELSE kept
        warned1 == IF (1..f.steps) \subseteq DictKeys(residuals) THEN << >>
                   ELSE << [kind |-> "only_some_steps_updated"] >>
        warned2 == IF IsNone(tr) THEN << >>
                   ELSE IF transform
                   THEN << [kind |-> "residuals_will_be_transformed"] >>
                   ELSE << [kind |-> "transform_is_false"] >>
    IN  IF ~f.is_fitted
        THEN { [f |-> f, raised |-> "NotFittedError", warned |-> << >>] }
        ELSE { [f |-> [f EXCEPT !.out_sample_residuals_ =
                          Some(direct_store_residuals(stored, capped, append))],
                raised |-> "", warned |-> warned1 \o warned2] :
               capped \in CapDict(values, FlatCap) }

\* a variant of direct_set_out_sample_residuals_of that stores the residuals
\* it is given and checks their type afterwards
direct_set_out_sample_residuals_checked_late(f, residuals_type, residuals, append, transform) ==
    { [f |-> r.f,
       raised |-> IF residuals_type # "dict of ndarray" THEN "TypeError"
                  ELSE r.raised,
       warned |-> r.warned] :
      r \in direct_set_out_sample_residuals(f, residuals, append, transform) }

\* ForecasterAutoregMultiVariate.set_out_sample_residuals called with
\* residuals of any type: the check of lines 2333-2338 comes first
direct_set_out_sample_residuals_of(f, residuals_type, residuals, append, transform) ==
    IF residuals_type # "dict of ndarray"
    THEN { [f |-> f, raised |-> "TypeError", warned |-> << >>] }
    ELSE direct_set_out_sample_residuals(f, residuals, append, transform)

\* ForecasterAutoregMultiVariate.set_params(params): the estimator and the
\* estimators of the steps are replaced by clones, which are not trained
direct_set_params(f, params) ==
    [f EXCEPT !.regressor = [kind |-> params, trained |-> None],
              !.regressors_ = [step \in 1..f.steps |->
                                  [kind |-> params, trained |-> None,
                                   step |-> step]]]

\* ForecasterAutoregMultiVariate.set_lags(lags), lines 2272-2296, for lags
\* given as a list: lags, max_lag, lags_ and window_size are set.  lags_ is
\* then the array of lags itself, not a dict of the series: it is held as
\* one item under the key "ndarray".
direct_set_lags(f, lags) ==
    [f EXCEPT !.lags = lags,
              !.max_lag = MaxSeq(lags),
              !.lags_ = Some(<< [k |-> "ndarray", v |-> lags] >>),
              !.window_size = MaxSeq(lags)]

-----------------------------------------------------------------------------
(* The calls a program makes on a ForecasterAutoreg *)

\* the forecasters that are constructed: regressor, lags, transformer_y,
\* differentiation, weight_func
AutoregConfigs ==
    { << "mean", << 1, 2, 3 >>, FALSE, None, None >>,
      << "wsum", << 1, 3 >>, TRUE, None, None >>,
      << "wsum", << 1, 2 >>, FALSE, Some(1), None >>,
      << "mean", << 1 >>, TRUE, Some(1), None >>,
      << "mean", << 1, 2, 3 >>, FALSE, None, Some("late") >> }

TrainingSeriesA == << 1, 2, 3, 4, 5, 6, 7, 8, 9, 10 >>
TrainingSeriesB == << 3, 1, 4, 1, 5, 9, 2, 6 >>

\* a series too short to train on
TrainingSeriesShort == << 2, 7 >>

\* the arguments of fit: y, with exog, store_last_window,
\* store_in_sample_residuals
FitArgs ==
    { << TrainingSeriesA, FALSE, TRUE, TRUE >>,
      << TrainingSeriesB, FALSE, TRUE, TRUE >>,
      << TrainingSeriesA, TRUE, TRUE, TRUE >>,
      << TrainingSeriesA, FALSE, FALSE, TRUE >>,
      << TrainingSeriesB, FALSE, TRUE, FALSE >>,
      << TrainingSeriesShort, FALSE, TRUE, TRUE >> }

\* an exogenous variable aligned with a training series of n observations
TrainingExog(n) == [t \in 1..n |-> << t % 2 >>]

\* the last window a caller passes to the predict methods
CallerWindow == Some(Series(<< 2, 7, 1, 8 >>, 20))

\* the exogenous values of the forecast horizon
FutureExog == [i \in 1..MaxSteps |-> << 4 + i >>]

\* the exog a caller passes after a fit with / without exog
ExogFor(f) == IF f.exog_in_ THEN Some(FutureExog) ELSE None

\* the arguments of predict: steps, last_window, exog
PredictArgs(f) ==
    IF ~f.is_fitted THEN { << 1, None, None >> }
    ELSE { << steps, last_window, ExogFor(f) >> :
             steps \in { 1, MaxSteps }, last_window \in { None, CallerWindow } }
         \cup { << 1, None, IF f.exog_in_ THEN None ELSE Some(FutureExog) >> }

\* the arguments of predict_bootstrapping: steps, last_window, exog, n_boot,
\* random_state, in_sample_residuals, binned_residuals
BootArgs(f) ==
    IF ~f.is_fitted THEN { << 1, None, None, 1, 0, TRUE, FALSE >> }
    ELSE { << MaxSteps, None, ExogFor(f), MaxBoot, seed, in_sample, binned >> :
             seed \in { 0, MaxSeed }, in_sample \in BOOLEAN, binned \in BOOLEAN }
         \cup { << MaxSteps, CallerWindow, ExogFor(f), MaxBoot, 0, TRUE, binned >> :
                  binned \in BOOLEAN }
         \cup { << 1, None, ExogFor(f), 1, 0, TRUE, FALSE >> }

\* the arguments of predict_interval, predict_quantiles and predict_dist
SummaryArgs(f) ==
    IF ~f.is_fitted THEN { << 1, None, None, 1, 0, TRUE, FALSE >> }
    ELSE { << MaxSteps, None, ExogFor(f), MaxBoot, 0, TRUE, binned >> :
             binned \in BOOLEAN }
         \cup { << MaxSteps, CallerWindow, ExogFor(f), MaxBoot, 0, TRUE, FALSE >> }

\* the arguments of set_out_sample_residuals in the prediction
\* specification: the residuals with their predictions, with y_pred, append,
\* and the types, lengths and indexes of what is passed
SetOutArgs ==
    { << << Block(1, 2, 2), Block(-1, 6, 1) >>, TRUE, FALSE,
         Passed("ndarray", "ndarray", 0, TRUE) >>,
      << << Block(1, 2, 2), Block(-1, 6, 1) >>, FALSE, FALSE,
         Passed("ndarray", "NoneType", 0, TRUE) >>,
      << << Block(2, 9, 3) >>, TRUE, TRUE,
         Passed("Series", "Series", 0, TRUE) >>,
      << << Block(2, 9, 3) >>, FALSE, TRUE,
         Passed("Series", "NoneType", 0, TRUE) >>,
      << << Block(2, 9, 3) >>, FALSE, FALSE,
         Passed("list", "NoneType", 0, TRUE) >>,
      << << Block(2, 9, 3) >>, TRUE, FALSE,
         Passed("ndarray", "list", 0, TRUE) >>,
      << << Block(2, 9, 3) >>, TRUE, FALSE,
         Passed("ndarray", "ndarray", 1, TRUE) >>,
      << << Block(2, 9, 3) >>, TRUE, TRUE,
         Passed("Series", "Series", 0, FALSE) >> }

NoCall == [op |-> "__init__", args |-> << >>, raised |-> "", out |-> None,
           rows |-> << >>, before |-> None]

NoBoot == [args |-> << >>, f |-> None, out |-> None]

\* no fit is in progress
NoJobs == << >>

\* the record of a call: what was called with which arguments on which
\* forecaster, and what came out
Called(op, args, r, rows) ==
    [op |-> op, args |-> args, raised |-> r.raised, out |-> r.out,
     rows |-> rows, before |-> Some(forecaster)]

CallFit ==
    /\ forecaster.class = "ForecasterAutoreg"
    /\ clock < MaxCalls
    /\ \E a \in FitArgs :
          LET exog == IF a[2] THEN Some(TrainingExog(Len(a[1]))) ELSE None
          IN  \E r \in Fit(forecaster, a[1], exog, a[3], a[4], clock) :
                /\ forecaster' = r.f
                /\ call' = Called("fit", a, [raised |-> r.raised, out |-> None],
                                  << >>)
    /\ warned' = << >>
    /\ clock' = clock + 1
    /\ UNCHANGED boot
    /\ UNCHANGED jobs

CallPredict ==
    /\ forecaster.class = "ForecasterAutoreg"
    /\ clock < MaxCalls
    /\ \E a \in PredictArgs(forecaster) :
          LET r == predict(forecaster, a[1], a[2], a[3])
          IN  /\ forecaster' = r.f
              /\ call' = Called("predict", a, r, r.rows)
    /\ warned' = << >>
    /\ clock' = clock + 1
    /\ UNCHANGED boot
    /\ UNCHANGED jobs

CallCreatePredictX ==
    /\ forecaster.class = "ForecasterAutoreg"
    /\ clock < MaxCalls
    /\ \E a \in PredictArgs(forecaster) :
          LET r == create_predict_X(forecaster, a[1], a[2], a[3])
          IN  /\ forecaster' = r.f
              /\ call' = Called("create_predict_X", a, r, r.rows)
    /\ warned' = << >>
    /\ clock' = clock + 1
    /\ UNCHANGED boot
    /\ UNCHANGED jobs

CallPredictBootstrapping ==
    /\ forecaster.class = "ForecasterAutoreg"
    /\ clock < MaxCalls
    /\ \E a \in BootArgs(forecaster) :
          LET r == predict_bootstrapping(forecaster, a[1], a[2], a[3], a[4],
                                         a[5], a[6], a[7], range(a[4]))
          IN  /\ forecaster' = r.f
              /\ call' = Called("predict_bootstrapping", a, r, r.rows)
              /\ boot' = IF r.raised = ""
                         THEN [args |-> a, f |-> Some(forecaster), out |-> r.out]
                         ELSE boot
    /\ warned' = << >>
    /\ clock' = clock + 1
    /\ UNCHANGED jobs

CallPredictInterval ==
    /\ forecaster.class = "ForecasterAutoreg"
    /\ clock < MaxCalls
    /\ \E a \in SummaryArgs(forecaster) :
          LET r == predict_interval(forecaster, a[1], a[2], a[3], a[4],
                                    a[5], a[6], a[7])
          IN  /\ forecaster' = r.f
              /\ call' = Called("predict_interval", a, r, << >>)
    /\ warned' = << >>
    /\ clock' = clock + 1
    /\ UNCHANGED boot
    /\ UNCHANGED jobs

CallPredictQuantiles ==
    /\ forecaster.class = "ForecasterAutoreg"
    /\ clock < MaxCalls
    /\ \E a \in SummaryArgs(forecaster) :
          LET r == predict_quantiles(forecaster, a[1], a[2], a[3], a[4],
                                     a[5], a[6], a[7])
          IN  /\ forecaster' = r.f
              /\ call' = Called("predict_quantiles", a, r, << >>)
    /\ warned' = << >>
    /\ clock' = clock + 1
    /\ UNCHANGED boot
    /\ UNCHANGED jobs

CallPredictDist ==
    /\ forecaster.class = "ForecasterAutoreg"
    /\ clock < MaxCalls
    /\ \E a \in SummaryArgs(forecaster) :
          LET r == predict_dist(forecaster, a[1], a[2], a[3], a[4],
                                a[5], a[6], a[7])
          IN  /\ forecaster' = r.f
              /\ call' = Called("predict_dist", a, r, << >>)
    /\ warned' = << >>
    /\ clock' = clock + 1
    /\ UNCHANGED boot
    /\ UNCHANGED jobs

CallSetOutSampleResiduals ==
    /\ forecaster.class = "ForecasterAutoreg"
    /\ clock < MaxCalls
    /\ \E a \in SetOutArgs :
          \E r \in set_out_sample_residuals_of(forecaster, a[4], a[1], a[3], TRUE) :
              /\ forecaster' = r.f
              /\ call' = Called("set_out_sample_residuals", a,
                                [raised |-> r.raised, out |-> None], << >>)
              /\ warned' = r.warned
    /\ clock' = clock + 1
    /\ UNCHANGED boot
    /\ UNCHANGED jobs

InitAutoreg ==
    /\ forecaster \in { ForecasterAutoreg(c[1], c[2], c[3], FALSE, c[4], c[5]) :
                          c \in AutoregConfigs }
    /\ call = NoCall
    /\ boot = NoBoot
    /\ warned = << >>
    /\ clock = 0
    /\ jobs = NoJobs

NextAutoreg ==
    \/ CallFit
    \/ CallPredict
    \/ CallPredictBootstrapping
    \/ CallPredictInterval
    \/ CallPredictQuantiles
    \/ CallPredictDist
    \/ CallSetOutSampleResiduals

-----------------------------------------------------------------------------
(* The calls a program makes on a ForecasterAutoregMultiVariate *)

\* the forecasters that are constructed: regressor, lags, transformer_series;
\* the level is series l1 and there is one estimator for each of MaxSteps steps
DirectConfigs ==
    { << "const", << 1, 2 >>, FALSE >>,
      << "wsum", << 1, 2 >>, FALSE >>,
      << "wsum", << 1, 3 >>, TRUE >> }

TrainingFrameA ==
    Frame(0, << [k |-> "l1", v |-> << 1, 3, 2, 5, 4, 7, 6, 9, 8 >>],
                [k |-> "l2", v |-> << 2, 0, 2, 0, 2, 0, 2, 0, 2 >>] >>)

TrainingFrameB ==
    Frame(0, << [k |-> "l1", v |-> << 5, 5, 6, 6, 7, 7, 8, 8, 9 >>],
                [k |-> "l2", v |-> << 1, 2, 3, 1, 2, 3, 1, 2, 3 >>] >>)

\* a frame too short to train on
TrainingFrameShort ==
    Frame(0, << [k |-> "l1", v |-> << 5, 6, 7 >>],
                [k |-> "l2", v |-> << 1, 2, 3 >>] >>)

\* the arguments of fit: series, with exog, store_last_window,
\* store_in_sample_residuals
DirectFitArgs ==
    { << TrainingFrameA, FALSE, TRUE, TRUE >>,
      << TrainingFrameB, FALSE, TRUE, TRUE >>,
      << TrainingFrameA, TRUE, TRUE, TRUE >>,
      << TrainingFrameA, FALSE, TRUE, FALSE >>,
      << TrainingFrameShort, FALSE, TRUE, TRUE >> }

\* the last window a caller passes to the predict methods
CallerFrame ==
    Some(Frame(30, << [k |-> "l1", v |-> << 4, 4, 6 >>],
                      [k |-> "l2", v |-> << 1, 2, 3 >>] >>))

\* the lists of steps a caller requests (None: every step)
RequestedSteps ==
    { None, Some(<< 1 >>), Some(<< 2 >>), Some(<< 1, MaxSteps >>),
      Some(<< MaxSteps, 1 >>), Some(<< MaxSteps + 1 >>) }

\* the arguments of predict: steps, last_window, exog
DirectPredictArgs(f) ==
    IF ~f.is_fitted THEN { << None, None, None >> }
    ELSE { << steps, None, ExogFor(f) >> : steps \in RequestedSteps }
         \cup { << steps, CallerFrame, ExogFor(f) >> :
                  steps \in { None, Some(<< MaxSteps, 1 >>) } }

\* the arguments of predict_bootstrapping: steps, last_window, exog, n_boot,
\* random_state, use_in_sample_residuals
DirectBootArgs(f) ==
    IF ~f.is_fitted THEN { << None, None, None, 1, 0, TRUE >> }
    ELSE { << steps, None, ExogFor(f), MaxBoot, seed, in_sample >> :
             steps \in { None, Some(<< MaxSteps, 1 >>) },
             seed \in { 0, MaxSeed }, in_sample \in BOOLEAN }
         \cup { << Some(<< 2 >>), CallerFrame, ExogFor(f), 1, 0, TRUE >>,
                << Some(<< 1 >>), None, ExogFor(f), MaxBoot, 0, FALSE >> }

\* the arguments of set_out_sample_residuals: residuals, append, and the
\* type of what is passed as residuals
DirectSetOutArgs ==
    { << [step \in 1..MaxSteps |-> [k |-> step, v |-> ArrFull(step, 2)]], FALSE,
         "dict of ndarray" >>,
      << << [k |-> 1, v |-> << Run(-1, 1), Run(3, 1) >>] >>, TRUE,
         "dict of ndarray" >>,
      << << [k |-> 2, v |-> << Run(NaN, 1), Run(1, 1) >>] >>, TRUE,
         "dict of ndarray" >>,
      << << [k |-> 1, v |-> << Run(4, 2) >>] >>, FALSE, "ndarray" >>,
      << << [k |-> 1, v |-> << Run(4, 2) >>] >>, TRUE, "dict of list" >> }

CallDirectFit ==
    /\ forecaster.class = "ForecasterAutoregMultiVariate"
    /\ clock < MaxCalls
    /\ \E a \in DirectFitArgs :
          LET exog == IF a[2] THEN Some(TrainingExog(FrameLen(a[1]))) ELSE None
          IN  \E r \in direct_fit(forecaster, a[1], exog, a[3], a[4], clock) :
                /\ forecaster' = r.f
                /\ call' = Called("fit", a, [raised |-> r.raised, out |-> None],
                                  << >>)
    /\ warned' = << >>
    /\ clock' = clock + 1
    /\ UNCHANGED boot
    /\ UNCHANGED jobs

CallDirectPredict ==
    /\ forecaster.class = "ForecasterAutoregMultiVariate"
    /\ clock < MaxCalls
    /\ \E a \in DirectPredictArgs(forecaster) :
          LET r == direct_predict(forecaster, a[1], a[2], a[3])
          IN  /\ forecaster' = r.f
              /\ call' = Called("predict", a, r, r.rows)
    /\ warned' = << >>
    /\ clock' = clock + 1
    /\ UNCHANGED boot
    /\ UNCHANGED jobs

CallDirectPredictBootstrapping ==
    /\ forecaster.class = "ForecasterAutoregMultiVariate"
    /\ clock < MaxCalls
    /\ \E a \in DirectBootArgs(forecaster) :
          LET r == direct_predict_bootstrapping(forecaster, a[1], a[2], a[3],
                                                a[4], a[5], a[6])
          IN  /\ forecaster' = r.f
              /\ call' = Called("predict_bootstrapping", a, r, r.rows)
              /\ boot' = IF r.raised = ""
                         THEN [args |-> a, f |-> Some(forecaster), out |-> r.out]
                         ELSE boot
    /\ warned' = << >>
    /\ clock' = clock + 1
    /\ UNCHANGED jobs

CallDirectSetOutSampleResiduals ==
    /\ forecaster.class = "ForecasterAutoregMultiVariate"
    /\ clock < MaxCalls
    /\ \E a \in DirectSetOutArgs :
          \E r \in direct_set_out_sample_residuals_of(forecaster, a[3], a[1],
                                                       a[2], TRUE) :
              /\ forecaster' = r.f
              /\ call' = Called("set_out_sample_residuals", a,
                                [raised |-> r.raised, out |-> None], << >>)
              /\ warned' = r.warned
    /\ clock' = clock + 1
    /\ UNCHANGED boot
    /\ UNCHANGED jobs

InitDirect ==
    /\ forecaster \in { ForecasterAutoregMultiVariate(c[1], "l1", MaxSteps,
                                                      c[2], None, c[3], None, None) :
                          c \in DirectConfigs }
    /\ call = NoCall
    /\ boot = NoBoot
    /\ warned = << >>
    /\ clock = 0
    /\ jobs = NoJobs

NextDirect ==
    \/ CallDirectFit
    \/ CallDirectPredict
    \/ CallDirectPredictBootstrapping
    \/ CallDirectSetOutSampleResiduals

-----------------------------------------------------------------------------
(* The prediction specification: a forecaster of either class is constructed
   and then called at most MaxCalls times *)

Init == InitAutoreg \/ InitDirect

Next == NextAutoreg \/ NextDirect

Spec == Init /\ [][Next]_vars

-----------------------------------------------------------------------------
(* Properties of prediction *)

IsAutoreg == forecaster.class = "ForecasterAutoreg"
IsDirect == forecaster.class = "ForecasterAutoregMultiVariate"

\* the last call was `op` on a forecaster of the class and it returned
Returned(op) == call.op = op /\ call.raised = ""

\* the window a predict call of ForecasterAutoreg starts from, as the
\* estimator sees it: the last window_size_diff values, transformed and
\* differenced
PreparedWindow(f, last_window) ==
    LET lw  == SeriesTail(Val(IF IsNone(last_window) THEN f.last_window_
                              ELSE last_window),
                          f.window_size_diff).values
        lwt == transform_numpy(lw, f.transformer_y, FALSE)
    IN  IF IsNone(f.differentiation) THEN lwt
        ELSE DifferentiatorTransform(Val(f.differentiation), lwt)

\* C1: when ForecasterAutoreg.predict returns, the estimator was handed one
\* row per step, in ascending step order; in the row of step i the column of
\* lag k holds the output of step i - k of the same run when k <= i and
\* otherwise the value k - i positions before the end of the last window; the
\* columns follow the order of lags and are followed by row i of exog; the
\* returned values are the steps' outputs in step order (lags [1,2,3], last
\* window [8,9,10], mean estimator, one step: 9).
C1_RecursiveLagFeeding ==
    (IsAutoreg /\ Returned("predict")) =>
        LET f     == Val(call.before)
            steps == call.args[1]
            exog  == call.args[3]
            W     == PreparedWindow(f, call.args[2])
            n     == Len(f.lags)
            output(i) == RegressorPredict(f.regressor, call.rows[i + 1])
        IN  /\ Len(call.rows) = steps
            /\ Len(Val(call.out).data) = steps
            /\ \A i \in 0..(steps - 1) :
                  /\ Len(call.rows[i + 1]) = n + (IF IsNone(exog) THEN 0 ELSE 1)
                  /\ \A c \in 1..n :
                        LET k == f.lags[c]
                        IN  call.rows[i + 1][c] =
                                IF k <= i THEN output(i - k)
                                ELSE W[Len(W) - (k - i) + 1]
                  /\ ~IsNone(exog) =>
                        SubSeq(call.rows[i + 1], n + 1, n + 1) = Val(exog)[i + 1]
            /\ Val(call.out).data =
                   inverse_predictions(forecaster, [i \in 1..steps |-> output(i - 1)])
            /\ (/\ f.lags = << 1, 2, 3 >>
                /\ f.regressor.kind = "mean"
                /\ W = << 8, 9, 10 >>
                /\ steps = 1
                /\ IsNone(exog)) => Val(call.out).data = << 9 >>

\* a predict call of several steps returned in which a lag reaches back into
\* the outputs of the run, and the example of the claim gave 9
C1_Witness ==
    /\ IsAutoreg /\ Returned("predict")
    /\ call.args[1] = MaxSteps
    /\ Val(call.before).lags = << 1, 2, 3 >>
    /\ IsNone(call.args[2])
    /\ call.rows[1] = << 10, 9, 8 >>
    /\ Val(call.out).data[1] = 9
    /\ call.rows[2] = << 9, 10, 9 >>

\* the lists of steps of a predict call of the direct forecaster
RequestedOf(f, steps) == prepare_steps_direct(steps, f.steps)

\* C2: when ForecasterAutoregMultiVariate.predict(steps=S) returns, for a
\* list S of distinct horizons, the estimators invoked are exactly
\* regressors_[s] for s in S, once each, in the order of S; the row of
\* horizon s is regressors_[s] applied to the lags of the fixed last window
\* and is labelled with the s-th position after the end of the last window.
C2_DirectRequestedSteps ==
    (IsDirect /\ Returned("predict")) =>
        LET f  == Val(call.before)
            S  == RequestedOf(f, call.args[1])
            lw == Val(IF IsNone(call.args[2]) THEN f.last_window_
                      ELSE call.args[2])
            tr == DictVal(Val(f.transformer_series_), f.level)
        IN  /\ Len(call.rows) = Len(S)
            /\ Len(Val(call.out).data) = Len(S)
            /\ \A s \in 1..f.steps :
                  Cardinality({ j \in 1..Len(call.rows) : call.rows[j].step = s })
                      = (IF \E j \in 1..Len(S) : S[j] = s THEN 1 ELSE 0)
            /\ \A j \in 1..Len(S) :
                  /\ call.rows[j].step = S[j]
                  /\ SubSeq(call.rows[j].X, 1, 2 * Len(f.lags))
                         = SubSeq(call.rows[1].X, 1, 2 * Len(f.lags))
                  /\ Val(call.out).data[j] =
                         transform_numpy(
                             << DirectRegressorPredict(f.regressors_[S[j]],
                                                       call.rows[j].X) >>,
                             tr, TRUE)[1]
                  /\ Val(call.out).index[j] = lw.start + FrameLen(lw) + S[j] - 1
            /\ \A c \in 1..Len(f.lags) :
                  call.rows[1].X[c] =
                      LET y == transform_numpy(DictVal(lw.columns, "l1"),
                                               DictVal(Val(f.transformer_series_),
                                                       "l1"), FALSE)
                      IN  y[Len(y) - f.lags[c] + 1]

\* predict(steps=[1, MaxSteps]) returned two rows from constant models, with a
\* gap in the index
C2_Witness ==
    /\ IsDirect /\ Returned("predict")
    /\ call.args[1] = Some(<< 1, MaxSteps >>)
    /\ forecaster.regressor.kind = "const"
    /\ Len(Val(call.out).data) = 2
    /\ Val(call.out).data = << Val(forecaster.regressors_[1].trained),
                               Val(forecaster.regressors_[MaxSteps].trained) >>
    /\ Val(call.out).index[2] - Val(call.out).index[1] = MaxSteps - 1
    /\ Val(forecaster.regressors_[1].trained)
           # Val(forecaster.regressors_[2].trained)


\* the fitted state of a forecaster that a prediction reads: everything but
\* the working state of the differentiator, which every prediction re-fits
\* from its last window before using it
FittedState(f) ==
    IF f.class = "ForecasterAutoreg" THEN [f EXCEPT !.differentiator = None]
    ELSE f

ReplicateOrders(n) ==
    { o \in [1..n -> 0..(n - 1)] : \A i, j \in 1..n : o[i] = o[j] => i = j }

\* C4: the ensemble that ForecasterAutoreg.predict_bootstrapping returned is
\* the ensemble obtained when the replicates are computed in any other order:
\* column b depends only on random_state, b and the inputs.
C4_ReplicateOrderIndependent ==
    (IsAutoreg /\ Returned("predict_bootstrapping")) =>
        \A order \in ReplicateOrders(call.args[4]) :
            predict_bootstrapping(Val(call.before), call.args[1], call.args[2],
                                  call.args[3], call.args[4], call.args[5],
                                  call.args[6], call.args[7], order).out
                = call.out

\* C4 in flat mode only, where the draws of all replicates are taken from the
\* generator in one block before the loop
C4_FlatOrderIndependent ==
    (IsAutoreg /\ Returned("predict_bootstrapping") /\ ~call.args[7]) =>
        \A order \in ReplicateOrders(call.args[4]) :
            predict_bootstrapping(Val(call.before), call.args[1], call.args[2],
                                  call.args[3], call.args[4], call.args[5],
                                  call.args[6], FALSE, order).out
                = call.out

\* a binned bootstrapping call returned whose ensemble changes when the
\* replicates are computed in reverse order
C4_Witness ==
    /\ IsAutoreg /\ Returned("predict_bootstrapping")
    /\ call.args[7]
    /\ call.args[4] >= 2
    /\ predict_bootstrapping(Val(call.before), call.args[1], call.args[2],
                             call.args[3], call.args[4], call.args[5],
                             call.args[6], TRUE,
                             [j \in 1..call.args[4] |-> call.args[4] - j]).out
           # call.out

PredictMethods ==
    { "predict", "predict_bootstrapping", "predict_interval",
      "predict_quantiles", "predict_dist" }

\* C5: when predict, predict_bootstrapping, predict_interval,
\* predict_quantiles or predict_dist of ForecasterAutoreg returns, every
\* field of the forecaster has the value it had before the call.
C5_PredictReadOnly ==
    (IsAutoreg /\ call.op \in PredictMethods /\ call.raised = "") =>
        forecaster = Val(call.before)

\* C5 without the differentiator: the other fields are left alone
C5_PredictReadOnlyButDifferentiator ==
    (IsAutoreg /\ call.op \in PredictMethods /\ call.raised = "") =>
        FittedState(forecaster) = FittedState(Val(call.before))

\* predict returned for a caller's last window on a forecaster with
\* differentiation, and the differentiator is no longer the fitted one
C5_Witness ==
    /\ IsAutoreg /\ Returned("predict")
    /\ ~IsNone(call.args[2])
    /\ ~IsNone(forecaster.differentiation)
    /\ forecaster.differentiator # Val(call.before).differentiator
    /\ Val(forecaster.differentiator).last_values
           = transform_numpy(<< 8 >>, forecaster.transformer_y, FALSE)

-----------------------------------------------------------------------------
(* The residual-pool specification: a ForecasterAutoreg is trained on long
   series and given out-of-sample residuals, so that the pools reach their
   caps *)

\* np.repeat: the series a run-length encoded array stands for
RECURSIVE Expand(_)
Expand(a) ==
    IF a = << >> THEN << >>
    ELSE [j \in 1..Head(a).c |-> Head(a).v] \o Expand(Tail(a))

\* the training series, run-length encoded: seven levels of 200 values (the
\* last one short), one long level followed by a short one, a short series
PoolSeriesLevels == [j \in 1..7 |-> Run(j, IF j = 7 THEN 2 ELSE 200)]
PoolSeriesLong == << Run(1, 203), Run(5, 4) >>
PoolSeriesShort ==
    << Run(3, 1), Run(1, 1), Run(4, 1), Run(1, 1), Run(5, 1), Run(9, 1),
       Run(2, 1), Run(6, 1) >>

\* the arguments of fit: y, store_in_sample_residuals
PoolFitArgs ==
    { << PoolSeriesLevels, TRUE >>, << PoolSeriesLong, TRUE >>,
      << PoolSeriesShort, TRUE >>, << PoolSeriesShort, FALSE >> }

\* the residuals given to set_out_sample_residuals, with their predictions
PoolResidualsFew == << Block(3, 1, 2) >>
PoolResidualsMany == [j \in 1..7 |-> Block(7, j, 201)]
PoolResidualsOneBin == << Block(5, 1, 200), Block(6, 1, 2) >>
PoolResidualsFlat == << Block(5, 1, 1000), Block(6, 7, 1) >>

\* the arguments of set_out_sample_residuals: the residuals with their
\* predictions, whether y_pred is given, append
PoolSetOutArgs ==
    { << d, with_y_pred, append >> :
        d \in { PoolResidualsFew, PoolResidualsMany, PoolResidualsOneBin },
        with_y_pred \in BOOLEAN, append \in BOOLEAN }
    \cup { << PoolResidualsFlat, FALSE, FALSE >>,
           << << >>, TRUE, FALSE >> }

CallFitPool ==
    /\ clock < MaxPoolCalls
    /\ \E a \in PoolFitArgs :
          \E r \in Fit(forecaster, Expand(a[1]), None, TRUE, a[2], clock) :
              /\ forecaster' = r.f
              /\ call' = Called("fit", a, [raised |-> r.raised, out |-> None],
                                << >>)
    /\ warned' = << >>
    /\ clock' = clock + 1
    /\ UNCHANGED boot
    /\ UNCHANGED jobs

CallSetOutPool ==
    /\ clock < MaxPoolCalls
    /\ \E a \in PoolSetOutArgs :
          \E r \in set_out_sample_residuals(forecaster, a[1], a[2], a[3], FALSE) :
              /\ forecaster' = r.f
              /\ call' = Called("set_out_sample_residuals", a,
                                [raised |-> r.raised, out |-> None], << >>)
              /\ warned' = r.warned
    /\ clock' = clock + 1
    /\ UNCHANGED boot
    /\ UNCHANGED jobs

InitPool ==
    /\ forecaster = ForecasterAutoreg("mean", << 1 >>, FALSE, FALSE, None, None)
    /\ call = NoCall
    /\ boot = NoBoot
    /\ warned = << >>
    /\ clock = 0
    /\ jobs = NoJobs

NextPool == CallFitPool \/ CallSetOutPool

SpecPool == InitPool /\ [][NextPool]_vars

-----------------------------------------------------------------------------
(* Properties of the residual pools *)

\* the forecaster as it was when the last call was made
Before == Val(call.before)

\* the last call was fit with store_in_sample_residuals=True and it returned
FitStored == Returned("fit") /\ call.args[2]

\* the last call was set_out_sample_residuals with y_pred and it returned
SetOutBinned == Returned("set_out_sample_residuals") /\ call.args[2]

\* the residuals every bin received from the last call: from the training
\* rows of fit, or from the residuals and y_pred of set_out_sample_residuals
TrainingBlocks(tr) == InSampleBlocks(tr.f.regressor, tr.X_train, tr.y_train)

ReceivedByBin ==
    GroupByBin(IF call.op = "fit"
               THEN TrainingBlocks(create_train_X_y(FitReset(Before),
                                                    Expand(call.args[1]), None))
               ELSE call.args[1],
               Val(forecaster.binner.bin_edges_))

\* every array of a dict of pools holds at most cap values
PoolsWithin(d, cap) ==
    IsNone(d) \/ \A j \in 1..Len(Val(d)) : ArrLen(Val(d)[j].v) <= cap

\* pool holds exactly BinCap of the residuals in received
SampledFrom(pool, received) ==
    ArrLen(pool) = BinCap /\ ArrSubBag(pool, received)

\* C6: in_sample_residuals_ and out_sample_residuals_ of ForecasterAutoreg
\* each hold at most 1000 values after any sequence of fit and
\* set_out_sample_residuals calls.
C6_FlatPoolsCapped ==
    IsAutoreg =>
        /\ IsNone(forecaster.in_sample_residuals_)
           \/ ArrLen(Val(forecaster.in_sample_residuals_)) <= FlatCap
        /\ IsNone(forecaster.out_sample_residuals_)
           \/ ArrLen(Val(forecaster.out_sample_residuals_)) <= FlatCap

\* fit returned and in_sample_residuals_ holds more than 1000 values, or
\* set_out_sample_residuals with y_pred returned and out_sample_residuals_
\* holds more than 1000 values
C6_Witness ==
    \/ FitStored /\ ArrLen(Val(forecaster.in_sample_residuals_)) > FlatCap
    \/ SetOutBinned /\ ArrLen(Val(forecaster.out_sample_residuals_)) > FlatCap

\* bin k is appended to by the last call: append=True and the bin had a pool
Appended(k) ==
    /\ call.op = "set_out_sample_residuals"
    /\ call.args[3]
    /\ ~IsNone(Before.out_sample_residuals_by_bin_)
    /\ DictHas(Val(Before.out_sample_residuals_by_bin_), k)

\* every bin that received more than 200 residuals, and to which the last
\* call did not append when appends are set apart, holds in pools exactly 200
\* of the residuals it received
OverfullSampled(received, pools, also_appended) ==
    \A j \in 1..Len(received) :
        (ArrLen(received[j].v) > BinCap
         /\ (also_appended \/ ~Appended(received[j].k))) =>
            SampledFrom(DictVal(pools, received[j].k), received[j].v)

\* every bin the last call appended to holds in pools the pool it had in
\* stored, followed by the first max(0, 200 - len(pool)) residuals received
AppendedTruncated(received, pools, stored) ==
    \A j \in 1..Len(received) :
        Appended(received[j].k) =>
            DictVal(pools, received[j].k)
                = ArrConcat(DictVal(Val(stored), received[j].k),
                            ArrPrefix(received[j].v,
                                      Max(0, BinCap - ArrLen(DictVal(
                                          Val(stored), received[j].k)))))

\* C7 as stated: every per-bin pool holds at most 200 values, and a bin that
\* received more than 200 residuals in the last fit or set_out_sample_residuals
\* (y_pred given, append True or False) holds exactly 200 of the residuals it
\* received.
C7_BinKeepsSampleOfReceived ==
    IsAutoreg =>
        /\ PoolsWithin(forecaster.in_sample_residuals_by_bin_, BinCap)
        /\ PoolsWithin(forecaster.out_sample_residuals_by_bin_, BinCap)
        /\ FitStored =>
              OverfullSampled(ReceivedByBin,
                              Val(forecaster.in_sample_residuals_by_bin_), TRUE)
        /\ SetOutBinned =>
              OverfullSampled(ReceivedByBin,
                              Val(forecaster.out_sample_residuals_by_bin_), TRUE)

\* C7, amended: every per-bin pool holds at most 200 values; a bin that
\* received more than 200 residuals holds exactly 200 of them when its pool is
\* set by fit or set anew by set_out_sample_residuals; when the residuals are
\* appended to a pool the bin already had, the pool is kept and is followed
\* by the first max(0, 200 - len(pool)) of the residuals received.
C7_BinPoolsCapped ==
    IsAutoreg =>
        /\ PoolsWithin(forecaster.in_sample_residuals_by_bin_, BinCap)
        /\ PoolsWithin(forecaster.out_sample_residuals_by_bin_, BinCap)
        /\ FitStored =>
              OverfullSampled(ReceivedByBin,
                              Val(forecaster.in_sample_residuals_by_bin_), TRUE)
        /\ SetOutBinned =>
              /\ OverfullSampled(ReceivedByBin,
                                 Val(forecaster.out_sample_residuals_by_bin_),
                                 FALSE)
              /\ AppendedTruncated(ReceivedByBin,
                                   Val(forecaster.out_sample_residuals_by_bin_),
                                   Before.out_sample_residuals_by_bin_)

\* bin k, which received the residuals v, had a pool that was neither empty
\* nor full, and its pool now holds 200 values that are not all among v
KeptStored(k, v) ==
    /\ ArrLen(v) > BinCap
    /\ Appended(k)
    /\ ArrLen(DictVal(Val(Before.out_sample_residuals_by_bin_), k))
           \in 1..(BinCap - 1)
    /\ ArrLen(DictVal(Val(forecaster.out_sample_residuals_by_bin_), k)) = BinCap
    /\ ~ArrSubBag(DictVal(Val(forecaster.out_sample_residuals_by_bin_), k), v)

SomeKeptStored(received) ==
    \E j \in 1..Len(received) : KeptStored(received[j].k, received[j].v)

\* set_out_sample_residuals appended more than 200 residuals to a bin whose
\* pool was not empty and not full, and the pool now holds 200 values that
\* are not all among the residuals received
C7_Witness ==
    IsAutoreg /\ SetOutBinned /\ SomeKeptStored(ReceivedByBin)

\* C8: when set_out_sample_residuals returns from a call with append=True on
\* a forecaster that held out-of-sample residuals, every residual that
\* out_sample_residuals_ held before the call is still held after it,
\* whichever form (with y_pred or without) the calls use.
C8_AppendKeepsStored ==
    ( /\ IsAutoreg /\ Returned("set_out_sample_residuals")
      /\ call.args[3]
      /\ ~IsNone(Before.out_sample_residuals_) ) =>
        ArrSubBag(Val(Before.out_sample_residuals_),
                  Val(forecaster.out_sample_residuals_))

\* residuals were stored without y_pred, and the call with y_pred and
\* append=True that followed has dropped them
C8_Witness ==
    /\ IsAutoreg /\ SetOutBinned
    /\ call.args[3]
    /\ ~IsNone(Before.out_sample_residuals_)
    /\ IsNone(Before.out_sample_residuals_by_bin_)
    /\ \E v \in ArrValues(Val(Before.out_sample_residuals_)) :
          ArrCount(Val(forecaster.out_sample_residuals_), v) = 0

\* bin k had out-of-sample residuals when the empty bins were looked for: it
\* received some in the last call, or the call appended and it had a pool
HadResiduals(k) ==
    \/ DictHas(ReceivedByBin, k)
    \/ /\ call.args[3]
       /\ ~IsNone(Before.out_sample_residuals_by_bin_)
       /\ DictHas(Val(Before.out_sample_residuals_by_bin_), k)

\* a warning of the last call names bin k as empty, with its interval
WarnedEmpty(k) ==
    \E w \in 1..Len(warned) :
        /\ warned[w].kind = "empty_bins"
        /\ \E j \in 1..Len(warned[w].bins) :
              /\ warned[w].bins[j] = k
              /\ warned[w].intervals[j]
                     = DictVal(Val(forecaster.binner_intervals), k)

\* C9: when set_out_sample_residuals returns from a call with y_pred and a
\* non-empty residuals array, every bin key of in_sample_residuals_by_bin_ is
\* a key of out_sample_residuals_by_bin_ with a non-empty pool; a bin that had
\* no out-of-sample residual holds 200 values taken from
\* out_sample_residuals_, and a warning names it with its interval.
C9_EmptyBinsBackFilled ==
    (IsAutoreg /\ SetOutBinned /\ call.args[1] # << >>) =>
        \A j \in 1..Len(Val(forecaster.in_sample_residuals_by_bin_)) :
            LET k == Val(forecaster.in_sample_residuals_by_bin_)[j].k
            IN  /\ DictHas(Val(forecaster.out_sample_residuals_by_bin_), k)
                /\ DictVal(Val(forecaster.out_sample_residuals_by_bin_), k)
                       # << >>
                /\ ~HadResiduals(k) =>
                      /\ ArrLen(DictVal(
                             Val(forecaster.out_sample_residuals_by_bin_), k))
                             = BinCap
                      /\ ArrValues(DictVal(
                             Val(forecaster.out_sample_residuals_by_bin_), k))
                             \subseteq
                             ArrValues(Val(forecaster.out_sample_residuals_))
                      /\ WarnedEmpty(k)

\* set_out_sample_residuals with y_pred returned, an in-sample bin had
\* received no out-of-sample residual, and the warning names it
C9_Witness ==
    /\ IsAutoreg /\ SetOutBinned /\ call.args[1] # << >>
    /\ \E j \in 1..Len(Val(forecaster.in_sample_residuals_by_bin_)) :
          /\ ~HadResiduals(Val(forecaster.in_sample_residuals_by_bin_)[j].k)
          /\ WarnedEmpty(Val(forecaster.in_sample_residuals_by_bin_)[j].k)

\* C10: after fit with store_in_sample_residuals=True,
\* in_sample_residuals_by_bin_ has a non-empty array for every bin index of
\* the fitted binner, 0 .. number of intervals - 1.
C10_EveryBinNonEmpty ==
    (IsAutoreg /\ FitStored) =>
        \A b \in 0..(Len(Val(forecaster.binner.bin_edges_)) - 2) :
            /\ DictHas(Val(forecaster.in_sample_residuals_by_bin_), b)
            /\ DictVal(Val(forecaster.in_sample_residuals_by_bin_), b) # << >>

\* fit returned, the binner has an interval into which no training
\* prediction falls, and in_sample_residuals_by_bin_ has no key for it
C10_Witness ==
    /\ IsAutoreg /\ FitStored
    /\ \E b \in 0..(Len(Val(forecaster.binner.bin_edges_)) - 2) :
          /\ ~DictHas(Val(forecaster.in_sample_residuals_by_bin_), b)
          /\ DictHas(Val(forecaster.binner_intervals), b)

-----------------------------------------------------------------------------
(* The training-matrix specification: a forecaster of either class is
   constructed and one of the functions that build its training matrices is
   called once, on a series of any length up to MaxLen *)

\* the series: every sequence of at most MaxLen values out of 0..2
LagSeries == UNION { [1..n -> 0..2] : n \in 0..MaxLen }

\* the lags of the forecasters
LagSets == { << 1 >>, << 2 >>, << 1, 2 >>, << 1, 3 >>, << 2, 3 >> }

\* a frame with level "l1" holding y and a second series "l2"
LagFrame(y) ==
    Frame(0, << [k |-> "l1", v |-> y],
                [k |-> "l2", v |-> [j \in 1..Len(y) |-> y[j] + 3]] >>)

\* ForecasterAutoreg._create_lags(y) is called
CallCreateLags ==
    /\ forecaster.class = "ForecasterAutoreg"
    /\ call.op = "__init__"
    /\ \E y \in LagSeries :
          LET r == create_lags(forecaster, y)
          IN  call' = Called("_create_lags", << y >>,
                             [raised |-> r.raised,
                              out |-> Some(<< r.X_data, r.y_data >>)], << >>)
    /\ clock' = clock + 1
    /\ UNCHANGED << forecaster, boot, warned >>
    /\ UNCHANGED jobs

\* ForecasterAutoreg.create_train_X_y(y) is called, y being long enough to
\* be differentiated
CallCreateTrainXy ==
    /\ forecaster.class = "ForecasterAutoreg"
    /\ call.op = "__init__"
    /\ \E y \in LagSeries :
          /\ Len(y) > (IF IsNone(forecaster.differentiation) THEN -1
                        ELSE Val(forecaster.differentiation))
          /\ LET tr == create_train_X_y(forecaster, y, None)
             IN  /\ forecaster' = tr.f
                 /\ call' = Called("create_train_X_y", << y >>,
                                   [raised |-> tr.raised,
                                    out |-> Some(<< tr.X_train, tr.y_train >>)],
                                   << >>)
    /\ clock' = clock + 1
    /\ UNCHANGED << boot, warned >>
    /\ UNCHANGED jobs

\* ForecasterAutoregMultiVariate._create_train_X_y(series) is called
CallDirectCreateTrainXy ==
    /\ forecaster.class = "ForecasterAutoregMultiVariate"
    /\ call.op = "__init__"
    /\ \E y \in LagSeries :
          LET tr == direct_create_train_X_y(forecaster, LagFrame(y), None)
          IN  /\ forecaster' = tr.f
              /\ call' = Called("_create_train_X_y", << y >>,
                                [raised |-> tr.raised,
                                 out |-> Some(<< tr.X_train, tr.y_train >>)],
                                << >>)
    /\ clock' = clock + 1
    /\ UNCHANGED << boot, warned >>
    /\ UNCHANGED jobs

InitLags ==
    /\ forecaster \in
          { ForecasterAutoreg("mean", lags, FALSE, FALSE, d, None) :
              lags \in LagSets, d \in { None, Some(1), Some(2) } }
          \cup { ForecasterAutoregMultiVariate("wsum", "l1", steps, lags, None,
                                                 FALSE, None, None) :
                   lags \in LagSets, steps \in 1..MaxSteps }
    /\ call = NoCall
    /\ boot = NoBoot
    /\ warned = << >>
    /\ clock = 0
    /\ jobs = NoJobs

NextLags ==
    \/ CallCreateLags
    \/ CallCreateTrainXy
    \/ CallDirectCreateTrainXy

SpecLags == InitLags /\ [][NextLags]_vars

-----------------------------------------------------------------------------
(* The window specification: a ForecasterAutoregMultiVariate is constructed
   with lags, window features and a differentiation, and set_lags is called
   at most MaxCalls times *)

\* the sizes of the window features a forecaster is constructed with (None:
\* no window features)
WindowFeatureSizes == { None, Some(1), Some(3), Some(5) }

\* the orders of differentiation a forecaster is constructed with
DiffOrders == { None, Some(1), Some(2) }

CallSetLags ==
    /\ forecaster.class = "ForecasterAutoregMultiVariate"
    /\ clock < MaxCalls
    /\ \E lags \in LagSets :
          /\ forecaster' = direct_set_lags(forecaster, lags)
          /\ call' = Called("set_lags", << lags >>,
                            [raised |-> "", out |-> None], << >>)
    /\ clock' = clock + 1
    /\ UNCHANGED << boot, warned >>
    /\ UNCHANGED jobs

InitWindow ==
    /\ forecaster \in
          { ForecasterAutoregMultiVariate("wsum", "l1", MaxSteps, lags, wf,
                                          FALSE, None, d) :
              lags \in LagSets, wf \in WindowFeatureSizes, d \in DiffOrders }
    /\ call = NoCall
    /\ boot = NoBoot
    /\ warned = << >>
    /\ clock = 0
    /\ jobs = NoJobs

NextWindow == CallSetLags

SpecWindow == InitWindow /\ [][NextWindow]_vars

-----------------------------------------------------------------------------
(* The jobs specification: a ForecasterAutoregMultiVariate is constructed and
   fitted once; the jobs of the fit (one per step) run concurrently, each
   going through filter_train_X_y_for_step, create_sample_weights and
   regressor.fit, and fit stores their results when all of them are done *)

\* the arguments of fit: series, with exog, store_last_window,
\* store_in_sample_residuals
JobFitArgs ==
    { << TrainingFrameA, FALSE, TRUE, TRUE >>,
      << TrainingFrameB, FALSE, TRUE, TRUE >>,
      << TrainingFrameA, TRUE, TRUE, TRUE >>,
      << TrainingFrameB, FALSE, TRUE, FALSE >>,
      << TrainingFrameShort, FALSE, TRUE, TRUE >> }

\* fit, lines 1321-1348 and 1414-1425: the reset, the training matrices, and
\* the jobs are started
BeginFit ==
    /\ forecaster.class = "ForecasterAutoregMultiVariate"
    /\ call.op = "__init__"
    /\ jobs = NoJobs
    /\ \E a \in JobFitArgs :
          LET exog == IF a[2] THEN Some(TrainingExog(FrameLen(a[1]))) ELSE None
              tr == direct_create_train_X_y(direct_fit_reset(forecaster),
                                            a[1], exog)
          IN  /\ forecaster' = tr.f
              /\ call' = Called("fit", a, [raised |-> tr.raised, out |-> None],
                                << >>)
              /\ jobs' = IF tr.raised # "" THEN NoJobs
                         ELSE StartedJobs(tr.f, tr, a[1], a[3], a[4])
    /\ UNCHANGED << boot, warned, clock >>

\* the job of some step runs filter_train_X_y_for_step
JobFilter ==
    /\ jobs # NoJobs
    /\ \E step \in 1..forecaster.steps :
          /\ jobs.job[step].pc = "filter"
          /\ jobs' = job_filter(forecaster, jobs, step)
    /\ UNCHANGED << forecaster, call, boot, warned, clock >>

\* the job of some step runs create_sample_weights
JobWeights ==
    /\ jobs # NoJobs
    /\ \E step \in 1..forecaster.steps :
          /\ jobs.job[step].pc = "weights"
          /\ jobs' = job_weights(forecaster, jobs, step)
    /\ UNCHANGED << forecaster, call, boot, warned, clock >>

\* the job of some step fits its estimator and computes its residuals
JobFit ==
    /\ jobs # NoJobs
    /\ \E step \in 1..forecaster.steps :
          /\ jobs.job[step].pc = "fit"
          /\ jobs' = job_fit(jobs, step)
    /\ UNCHANGED << forecaster, call, boot, warned, clock >>

\* fit, lines 1427-1461: every job is done and its result is stored in the
\* slot of its step
EndFit ==
    /\ jobs # NoJobs
    /\ \A step \in 1..forecaster.steps : jobs.job[step].pc = "done"
    /\ forecaster' =
          direct_fit_merge(
              forecaster,
              [step \in 1..forecaster.steps |-> jobs.job[step].regressor],
              [step \in 1..forecaster.steps |->
                  [k |-> step,
                   v |-> IF jobs.store_in_sample_residuals
                         THEN Val(jobs.job[step].residuals) ELSE << >>]],
              jobs.series, jobs.store_last_window,
              jobs.store_in_sample_residuals, clock)
    /\ jobs' = NoJobs
    /\ clock' = clock + 1
    /\ UNCHANGED << call, boot, warned >>

InitJobs ==
    /\ forecaster \in
          { ForecasterAutoregMultiVariate(kind, "l1", MaxSteps, << 1, 2 >>,
                                          None, FALSE, weight_func, None) :
              kind \in { "const", "wsum" },
              weight_func \in { None, Some("index") } }
    /\ call = NoCall
    /\ boot = NoBoot
    /\ warned = << >>
    /\ clock = 0
    /\ jobs = NoJobs

NextJobs ==
    \/ BeginFit
    \/ JobFilter
    \/ JobWeights
    \/ JobFit
    \/ EndFit

SpecJobs == InitJobs /\ [][NextJobs]_vars

-----------------------------------------------------------------------------
(* Properties of training *)

\* the length of a flat pool, an unset pool counting as empty
FlatLen(pool) == IF IsNone(pool) THEN 0 ELSE ArrLen(Val(pool))

\* the sum of the lengths of the arrays of a dict of pools, an unset dict
\* counting as empty
ByBinLen(d) == IF IsNone(d) THEN 0 ELSE ArrLen(DictConcat(Val(d)))

\* C11: after any successful fit of ForecasterAutoreg the lengths of the
\* arrays in in_sample_residuals_by_bin_ sum to the length of
\* in_sample_residuals_ (an unset pool counting as empty), and a fit with
\* store_in_sample_residuals=False leaves no per-bin residuals of an earlier
\* fit.
C11_InSamplePoolsOfThisFit ==
    (IsAutoreg /\ Returned("fit")) =>
        /\ ByBinLen(forecaster.in_sample_residuals_by_bin_)
               = FlatLen(forecaster.in_sample_residuals_)
        /\ ~call.args[2] => IsNone(forecaster.in_sample_residuals_by_bin_)

\* fit with store_in_sample_residuals=False returned on a forecaster that an
\* earlier fit had given per-bin residuals: the flat pool is unset and the
\* per-bin pools are still those of the earlier fit
C11_Witness ==
    /\ IsAutoreg /\ Returned("fit") /\ ~call.args[2]
    /\ IsNone(forecaster.in_sample_residuals_)
    /\ ~IsNone(forecaster.in_sample_residuals_by_bin_)
    /\ forecaster.in_sample_residuals_by_bin_
           = Before.in_sample_residuals_by_bin_
    /\ ByBinLen(forecaster.in_sample_residuals_by_bin_) > 0

\* the exog that fit was given in the prediction specification
FitExog == IF call.args[2] THEN Some(TrainingExog(Len(call.args[1]))) ELSE None

\* the bin edges of a binner fitted on the predictions of the training data
\* of the last fit call
EdgesOfThisFit ==
    KBinsFit(PredictionColumn(TrainingBlocks(
        create_train_X_y(FitReset(Before), call.args[1], FitExog))))

\* the binner and binner_intervals are those of a binner with these edges
BinnerHas(edges) ==
    /\ forecaster.binner.bin_edges_ = Some(edges)
    /\ forecaster.binner_intervals = Some(BinnerIntervals(edges))

\* C12: after every successful fit of ForecasterAutoreg the binner's edges
\* and binner_intervals are those of a binner fitted on that call's
\* predictions of the training data; predict, predict_bootstrapping,
\* predict_interval, predict_quantiles, predict_dist and
\* set_out_sample_residuals leave the binner as it was.
C12_BinnerOfLatestFit ==
    IsAutoreg =>
        /\ Returned("fit") => BinnerHas(EdgesOfThisFit)
        /\ (call.op # "fit" /\ call.op # "__init__") =>
              /\ forecaster.binner = Before.binner
              /\ forecaster.binner_intervals = Before.binner_intervals

\* fit with store_in_sample_residuals=False returned on a fitted forecaster
\* and the binner still has the edges of the earlier fit, which are not those
\* of this call's training predictions
C12_Witness ==
    /\ IsAutoreg /\ Returned("fit") /\ ~call.args[4]
    /\ ~IsNone(Before.binner.bin_edges_)
    /\ forecaster.binner = Before.binner
    /\ forecaster.binner.bin_edges_ # Some(EdgesOfThisFit)

-----------------------------------------------------------------------------
(* Properties of the errors *)

\* the pool that a predict_bootstrapping call of ForecasterAutoreg with
\* arguments a is asked to use, on forecaster f
SelectedPool(f, a) ==
    IF a[6]
    THEN (IF a[7] THEN f.in_sample_residuals_by_bin_ ELSE f.in_sample_residuals_)
    ELSE (IF a[7] THEN f.out_sample_residuals_by_bin_ ELSE f.out_sample_residuals_)

\* predict_bootstrapping was called on a fitted ForecasterAutoreg whose
\* selected pool is not initialised
BootOnUnsetPool ==
    /\ IsAutoreg /\ call.op = "predict_bootstrapping"
    /\ Before.is_fitted
    /\ IsNone(SelectedPool(Before, call.args))

C13_WitnessOutSample ==
    /\ BootOnUnsetPool /\ ~call.args[6] /\ call.args[7]
    /\ ~IsNone(Before.out_sample_residuals_)
    /\ call.raised = "ValueError"


\* predict_bootstrapping was called on a fitted ForecasterAutoregMultiVariate
DirectBootOnFitted ==
    /\ IsDirect /\ call.op = "predict_bootstrapping"
    /\ Before.is_fitted

\* the pool that a predict_bootstrapping call with arguments a is asked to
\* use, on forecaster f
SelectedDirectPool(f, a) ==
    IF a[6] THEN Some(f.in_sample_residuals_) ELSE f.out_sample_residuals_

\* pool has no entry for the step, or the entry is None, or it holds a NaN
BadStepPool(pool, step) ==
    \/ step \notin DOMAIN pool
    \/ IsNone(pool[step])
    \/ NaN \in ArrValues(Val(pool[step]))

\* for some of the steps the selected pool is unusable
BadRequestedPool(pool, steps) ==
    \/ IsNone(pool)
    \/ \E j \in 1..Len(steps) : BadStepPool(Val(pool), steps[j])

\* no pool of the steps is empty
NoEmptyPool(pool, steps) ==
    \A j \in 1..Len(steps) : Val(Val(pool)[steps[j]]) # << >>

\* what predict_bootstrapping must do, given the selected pool and the
\* requested steps
DirectBootChecked(pool, steps) ==
    /\ BadRequestedPool(pool, steps) =>
          /\ call.raised = "ValueError"
          /\ call.rows = << >>
          /\ IsNone(call.out)
    /\ (~BadRequestedPool(pool, steps) /\ NoEmptyPool(pool, steps)) =>
          call.raised = direct_predict(Before, Some(steps), call.args[2],
                                       call.args[3]).raised

\* C14: predict_bootstrapping of a fitted ForecasterAutoregMultiVariate
\* raises ValueError, before any estimator is invoked, when for some
\* requested step the selected residual pool has no entry, is None or
\* contains NaN; when the pools of the requested steps are usable the pools
\* of the other steps do not make the call fail.
C14_DirectPoolsChecked ==
    DirectBootOnFitted =>
        DirectBootChecked(SelectedDirectPool(Before, call.args),
                          RequestedOf(Before, call.args[1]))

\* predict_bootstrapping(use_in_sample_residuals=True) raised ValueError
\* after fit(store_in_sample_residuals=False), no estimator being invoked
C14_Witness ==
    /\ DirectBootOnFitted /\ call.args[6]
    /\ \A step \in 1..Before.steps : IsNone(Before.in_sample_residuals_[step])
    /\ call.raised = "ValueError" /\ call.rows = << >>

\* predict_bootstrapping(use_in_sample_residuals=False) raised ValueError
\* before any set_out_sample_residuals
C14_WitnessOutSample ==
    /\ DirectBootOnFitted /\ ~call.args[6]
    /\ IsNone(Before.out_sample_residuals_)
    /\ call.raised = "ValueError" /\ call.rows = << >>

\* predict_bootstrapping raised ValueError for a requested step whose pool
\* holds a NaN
C14_WitnessNaN ==
    /\ DirectBootOnFitted /\ ~call.args[6]
    /\ ~IsNone(Before.out_sample_residuals_)
    /\ \E j \in 1..Len(RequestedOf(Before, call.args[1])) :
          LET step == RequestedOf(Before, call.args[1])[j]
          IN  /\ step \in 1..Before.steps
              /\ ~IsNone(Val(Before.out_sample_residuals_)[step])
              /\ NaN \in ArrValues(Val(Val(Before.out_sample_residuals_)[step]))
    /\ call.raised = "ValueError" /\ call.rows = << >>

\* predict_bootstrapping returned an ensemble for step 1 while the pool of
\* a step that was not requested is None
C14_WitnessNotRequested ==
    /\ DirectBootOnFitted /\ ~call.args[6]
    /\ call.args[1] = Some(<< 1 >>)
    /\ ~IsNone(Before.out_sample_residuals_)
    /\ IsNone(Val(Before.out_sample_residuals_)[2])
    /\ call.raised = "" /\ ~IsNone(call.out) /\ call.rows # << >>


\* the attributes of forecaster that fit resets hold their reset values
HoldsResetValues ==
    /\ ~forecaster.is_fitted
    /\ IsNone(forecaster.last_window_)
    /\ IsNone(forecaster.training_range_)
    /\ IsNone(forecaster.index_type_)
    /\ IsNone(forecaster.index_freq_)
    /\ IsNone(forecaster.fit_date)
    /\ IF IsAutoreg THEN IsNone(forecaster.in_sample_residuals_)
       ELSE forecaster.in_sample_residuals_
                = [step \in 1..forecaster.steps |-> None]

\* C15: a fit call of ForecasterAutoreg or ForecasterAutoregMultiVariate
\* that raises leaves the forecaster unfit: is_fitted is False and
\* last_window_, in_sample_residuals_, training_range_, index_type_,
\* index_freq_ and fit_date hold their reset values, also when the
\* forecaster was fitted before.
C15_FailedFitLeavesUnfit ==
    (call.op = "fit" /\ call.raised # "") => HoldsResetValues

\* fit raised in create_sample_weights on a ForecasterAutoreg that an earlier
\* fit had fitted with its residuals and last window stored
C15_Witness ==
    /\ IsAutoreg /\ call.op = "fit" /\ call.raised # ""
    /\ ~IsNone(forecaster.weight_func)
    /\ Len(call.args[1]) > forecaster.max_lag
    /\ Before.is_fitted
    /\ ~IsNone(Before.last_window_)
    /\ ~IsNone(Before.in_sample_residuals_)

\* fit raised in the construction of the training matrices of a fitted
\* ForecasterAutoregMultiVariate
C15_WitnessDirect ==
    /\ IsDirect /\ call.op = "fit" /\ call.raised # ""
    /\ Before.is_fitted
    /\ ~IsNone(Before.last_window_)
    /\ \E step \in 1..Before.steps : ~IsNone(Before.in_sample_residuals_[step])

\* fit raised in the construction of the training matrices of a fitted
\* ForecasterAutoreg
C15_WitnessShort ==
    /\ IsAutoreg /\ call.op = "fit" /\ call.raised # ""
    /\ call.args[1] = TrainingSeriesShort
    /\ Before.is_fitted


\* the out-of-sample pools of a forecaster
OutSamplePools(f) ==
    IF f.class = "ForecasterAutoreg"
    THEN << f.out_sample_residuals_, f.out_sample_residuals_by_bin_ >>
    ELSE << f.out_sample_residuals_ >>

\* the last call was a set_out_sample_residuals with malformed input:
\* residuals or y_pred of a wrong type, of different lengths, two Series
\* with different indexes, y_pred given to a forecaster that is not fitted;
\* for ForecasterAutoregMultiVariate residuals that are not a dict of
\* arrays, or a forecaster that is not fitted
MalformedSetOut ==
    /\ call.op = "set_out_sample_residuals"
    /\ IF IsAutoreg
       THEN \/ check_set_out_input(call.args[4]) # ""
            \/ (call.args[4].y_pred_type # "NoneType" /\ ~Before.is_fitted)
       ELSE \/ call.args[3] # "dict of ndarray"
            \/ ~Before.is_fitted

\* C16: a set_out_sample_residuals call with malformed input raises and
\* leaves out_sample_residuals_ and out_sample_residuals_by_bin_ exactly as
\* they were before the call.
C16_ValidatesBeforeMutating ==
    MalformedSetOut =>
        /\ call.raised \in { "TypeError", "ValueError", "NotFittedError" }
        /\ OutSamplePools(forecaster) = OutSamplePools(Before)

\* a malformed call on a ForecasterAutoreg that holds out-of-sample pools
C16_Witness ==
    /\ MalformedSetOut /\ IsAutoreg
    /\ check_set_out_input(call.args[4]) # ""
    /\ ~IsNone(Before.out_sample_residuals_)
    /\ ~IsNone(Before.out_sample_residuals_by_bin_)

\* a malformed call on a ForecasterAutoregMultiVariate that holds
\* out-of-sample pools
C16_WitnessDirect ==
    /\ MalformedSetOut /\ IsDirect
    /\ ~IsNone(Before.out_sample_residuals_)
    /\ call.raised = "TypeError"

\* y_pred given to a ForecasterAutoreg that is not fitted and holds a flat
\* out-of-sample pool
C16_WitnessNotFitted ==
    /\ MalformedSetOut /\ IsAutoreg
    /\ ~Before.is_fitted
    /\ ~IsNone(Before.out_sample_residuals_)
    /\ call.raised = "NotFittedError"


-----------------------------------------------------------------------------
(* Properties of the training matrices *)

\* X is the lag matrix of y for lags L with largest lag m, and target its
\* target: n - m rows, X[r][i] = y[m + r - L[i]] and target[r] = y[m + r],
\* rows and positions being counted from 1
IsLagMatrix(X, target, y, L, m) ==
    /\ Len(X) = Len(y) - m
    /\ Len(target) = Len(y) - m
    /\ \A r \in 1..(Len(y) - m) :
          /\ Len(X[r]) = Len(L)
          /\ \A i \in 1..Len(L) : X[r][i] = y[m + r - L[i]]
          /\ target[r] = y[m + r]

\* _create_lags of ForecasterAutoreg did what it must on y of length n
CreateLagsChecked(y, L, m) ==
    IF Len(y) <= m THEN call.raised = "ValueError"
    ELSE /\ call.raised = ""
         /\ IsLagMatrix(Val(call.out)[1], Val(call.out)[2], y, L, m)

\* create_train_X_y of ForecasterAutoreg returned n - m - d rows (none when
\* that is negative)
CreateTrainXyChecked(n, m, d) ==
    IF n <= m THEN call.raised = "ValueError"
    ELSE /\ call.raised = ""
         /\ Len(Val(call.out)[1]) = Max(0, n - m - d)
         /\ Len(Val(call.out)[2]) = Max(0, n - m - d)

C17_Witness ==
    /\ IsAutoreg /\ call.op = "create_train_X_y" /\ call.raised = ""
    /\ Before.lags = << 1, 3 >>
    /\ Before.differentiation = Some(1)
    /\ Len(Val(call.out)[1]) >= 2

C17_WitnessRaised ==
    /\ IsAutoreg /\ call.op = "_create_lags" /\ call.raised = "ValueError"
    /\ Len(call.args[1]) = MaxSeq(Before.lags)


\* the part of row X that holds the lags of the series in position j of the
\* frame, each series having k lags
LagsOfSeries(X, j, k) == SubSeq(X, (j - 1) * k + 1, j * k)

\* X_train and y_train are the direct training matrices of the level series
\* y for lags L, window size w and the given number of steps:
\* n - w - (steps - 1) rows, X[r][i] = y[w + r - L[i]] and
\* target[r][s] = y[w + s + r] for s in 0..steps-1, rows and positions of y
\* being counted from 1 (so that step s + 1 has target y[w + s + r])
IsDirectLagMatrix(X_train, y_train, y, L, w, steps) ==
    \A step \in 1..steps :
        /\ Len(X_train[step]) = Len(y) - w - (steps - 1)
        /\ Len(y_train[step]) = Len(y) - w - (steps - 1)
        /\ \A r \in 1..(Len(y) - w - (steps - 1)) :
              /\ \A i \in 1..Len(L) :
                    LagsOfSeries(X_train[step][r], 1, Len(L))[i]
                        = y[w + r - L[i]]
              /\ y_train[step][r] = y[w + (step - 1) + r]

\* _create_train_X_y of ForecasterAutoregMultiVariate did what it must
DirectCreateTrainXyChecked(y, L, w, steps) ==
    IF Len(y) < w + steps THEN call.raised = "ValueError"
    ELSE /\ call.raised = ""
         /\ IsDirectLagMatrix(Val(call.out)[1], Val(call.out)[2], y, L, w, steps)

\* C18: for a level series of length n, window size w and lags L,
\* _create_train_X_y of ForecasterAutoregMultiVariate raises ValueError when
\* n < w + steps and otherwise builds n - w - (steps - 1) rows with
\* X[r][i] = y[w + r - L[i]] and target[r][s] = y[w + s + r] for s in
\* 0..steps-1.
C18_DirectLagMatrix ==
    (IsDirect /\ call.op = "_create_train_X_y") =>
        DirectCreateTrainXyChecked(call.args[1], Before.lags,
                                   Before.window_size, Before.steps)

\* _create_train_X_y built two rows or more for three steps, whose targets
\* differ
C18_Witness ==
    /\ IsDirect /\ call.op = "_create_train_X_y" /\ call.raised = ""
    /\ Before.steps = MaxSteps
    /\ Len(Val(call.out)[1][1]) >= 2
    /\ Val(call.out)[2][1] # Val(call.out)[2][MaxSteps]

\* _create_train_X_y raised on a series one value too short
C18_WitnessRaised ==
    /\ IsDirect /\ call.op = "_create_train_X_y"
    /\ call.raised = "ValueError"
    /\ Len(call.args[1]) = Before.window_size + Before.steps - 1


-----------------------------------------------------------------------------
(* Properties of the window size *)

\* the window size that the configuration of forecaster f calls for:
\* max(max_lag, max_size_window_features), increased by the order of
\* differentiation
ConfiguredWindowSize(f) ==
    (IF IsNone(f.max_size_window_features) THEN f.max_lag
     ELSE IF f.max_lag > Val(f.max_size_window_features) THEN f.max_lag
     ELSE Val(f.max_size_window_features))
    + (IF IsNone(f.differentiation) THEN 0 ELSE Val(f.differentiation))

\* C19: after construction and after any sequence of set_lags calls the
\* window_size of a ForecasterAutoregMultiVariate equals
\* max(max_lag, max_size_window_features), increased by the order of
\* differentiation when differentiation is configured.
C19_WindowSizeKept ==
    IsDirect => forecaster.window_size = ConfiguredWindowSize(forecaster)

\* set_lags returned on a forecaster with a differentiation and window_size
\* is max_lag, not max_lag plus the order of differentiation
C19_Witness ==
    /\ IsDirect /\ Returned("set_lags")
    /\ ~IsNone(forecaster.differentiation)
    /\ Before.window_size = ConfiguredWindowSize(Before)
    /\ forecaster.window_size = forecaster.max_lag
    /\ forecaster.window_size < ConfiguredWindowSize(forecaster)

\* after construction window_size is what the configuration calls for
C19_Constructed ==
    (IsDirect /\ call.op = "__init__") =>
        forecaster.window_size = ConfiguredWindowSize(forecaster)


-----------------------------------------------------------------------------
(* Properties of the jobs of fit *)

\* the fit of the jobs specification has returned
FitDone ==
    /\ IsDirect /\ call.op = "fit" /\ call.raised = ""
    /\ jobs = NoJobs /\ forecaster.is_fitted

\* the training matrices of the fit that was called
FitMatrices ==
    direct_create_train_X_y(
        direct_fit_reset(Before), call.args[1],
        IF call.args[2] THEN Some(TrainingExog(FrameLen(call.args[1])))
        ELSE None)

\* the estimator of a step when the jobs run one after another: fitted on
\* the target of that step, with the weights of the index of that step
SequentialRegressor(f, tr, step) ==
    DirectRegressorFitWeighted(
        [kind |-> f.regressor.kind, trained |-> None, step |-> step],
        tr.X_train[step], tr.y_train[step],
        IF IsNone(f.weight_func) THEN None
        ELSE Some(DirectWeightFunc(Val(f.weight_func), StepIndexStart(f, step),
                                   Len(tr.y_train[step]))))

\* the estimators and residuals of forecaster are those of the jobs run one
\* after another on training matrices tr
EqualsSequential(tr) ==
    \A step \in 1..forecaster.steps :
        /\ forecaster.regressors_[step] = SequentialRegressor(forecaster, tr, step)
        /\ forecaster.in_sample_residuals_[step]
               = IF call.args[4]
                 THEN Some(direct_residuals(
                               SequentialRegressor(forecaster, tr, step),
                               tr.X_train[step], tr.y_train[step]))
                 ELSE None

\* C20: the jobs of ForecasterAutoregMultiVariate.fit share no mutable
\* state, so that for every interleaving of the jobs regressors_ and
\* in_sample_residuals_ after fit are those of the jobs run one after
\* another, every estimator being trained on the target of its own step.
C20_JobsShareNoState ==
    FitDone => EqualsSequential(FitMatrices)

\* no job modifies the X_train that the jobs share: its index stays where
\* _create_train_X_y put it
C20_SharedFrameUntouched ==
    (IsDirect /\ jobs # NoJobs) =>
        jobs.X_index = forecaster.window_size + forecaster.steps - 1

\* fit returned on a forecaster with a weight_func and no exog, and some
\* estimator is not the one the jobs give when run one after another
C20_Witness ==
    /\ FitDone
    /\ ~IsNone(forecaster.weight_func) /\ ~forecaster.exog_in_
    /\ ~EqualsSequential(FitMatrices)

\* fit returned with the results of the jobs run one after another
C20_WitnessSequential ==
    /\ FitDone
    /\ ~IsNone(forecaster.weight_func) /\ ~forecaster.exog_in_
    /\ EqualsSequential(FitMatrices)

-----------------------------------------------------------------------------
(* The specification of the residuals that are zero: a forecaster of either
   class is constructed, fitted, given out-of-sample residuals that are
   already in the scale of the training, and asked for bootstrapped
   predictions *)

\* the ForecasterAutoreg that are constructed: regressor, lags,
\* transformer_y, transformer_exog, differentiation
ZeroConfigs ==
    { << "mean", << 1, 2, 3 >>, FALSE, FALSE, None >>,
      << "wsum", << 1, 3 >>, TRUE, TRUE, None >>,
      << "wsum", << 1, 2 >>, FALSE, TRUE, Some(1) >>,
      << "mean", << 1 >>, TRUE, FALSE, Some(1) >> }

\* the arguments of set_out_sample_residuals(residuals, y_pred, append=False,
\* transform=False): the residuals with their predictions, and with y_pred
ZeroSetOutArgs ==
    { << data, with_y_pred >> :
        data \in { << Block(0, 2, 2), Block(0, 6, 1) >>,
                   << Block(0, 2, 2), Block(1, 6, 1) >> },
        with_y_pred \in BOOLEAN }

\* the arguments of set_out_sample_residuals(residuals, append=False,
\* transform=False) of the direct forecaster
ZeroDirectSetOutArgs ==
    { [step \in 1..MaxSteps |-> [k |-> step, v |-> ArrFull(0, 2)]],
      [step \in 1..MaxSteps |->
          [k |-> step, v |-> ArrFull(IF step = 1 THEN 0 ELSE 2, 2)]] }

CallSetOutZero ==
    /\ forecaster.class = "ForecasterAutoreg"
    /\ clock < MaxCalls
    /\ \E a \in ZeroSetOutArgs :
          \E r \in set_out_sample_residuals_of(
                       forecaster,
                       Passed("ndarray",
                              IF a[2] THEN "ndarray" ELSE "NoneType", 0, TRUE),
                       a[1], FALSE, FALSE) :
              /\ forecaster' = r.f
              /\ call' = Called("set_out_sample_residuals", a,
                                [raised |-> r.raised, out |-> None], << >>)
              /\ warned' = r.warned
    /\ clock' = clock + 1
    /\ UNCHANGED boot
    /\ UNCHANGED jobs

CallDirectSetOutZero ==
    /\ forecaster.class = "ForecasterAutoregMultiVariate"
    /\ clock < MaxCalls
    /\ \E a \in ZeroDirectSetOutArgs :
          \E r \in direct_set_out_sample_residuals_of(
                       forecaster, "dict of ndarray", a, FALSE, FALSE) :
              /\ forecaster' = r.f
              /\ call' = Called("set_out_sample_residuals", << a >>,
                                [raised |-> r.raised, out |-> None], << >>)
              /\ warned' = r.warned
    /\ clock' = clock + 1
    /\ UNCHANGED boot
    /\ UNCHANGED jobs

InitZero ==
    \/ /\ forecaster \in { ForecasterAutoreg(c[1], c[2], c[3], c[4], c[5], None) :
                             c \in ZeroConfigs }
       /\ call = NoCall
       /\ boot = NoBoot
       /\ warned = << >>
       /\ clock = 0
       /\ jobs = NoJobs
    \/ InitDirect

NextZero ==
    \/ CallFit
    \/ CallSetOutZero
    \/ CallPredictBootstrapping
    \/ CallDirectFit
    \/ CallDirectSetOutZero
    \/ CallDirectPredictBootstrapping

SpecZero == InitZero /\ [][NextZero]_vars

-----------------------------------------------------------------------------
(* Properties of the residuals that are zero *)

\* every residual of the array is 0, and there is one
AllZero(a) == a # << >> /\ \A j \in 1..Len(a) : a[j].v = 0

\* every residual of every bin is 0
AllZeroByBin(d) == d # << >> /\ \A j \in 1..Len(d) : AllZero(d[j].v)

\* the pool that predict_bootstrapping of ForecasterAutoreg selects with
\* arguments a holds zeros only
ZeroSelected(f, a) ==
    /\ ~IsNone(SelectedPool(f, a))
    /\ IF a[7] THEN AllZeroByBin(Val(SelectedPool(f, a)))
       ELSE AllZero(Val(SelectedPool(f, a)))

\* the pools of the requested steps of the direct forecaster hold zeros only
ZeroSelectedDirect(f, a) ==
    /\ ~IsNone(SelectedDirectPool(f, a))
    /\ \A j \in 1..Len(RequestedOf(f, a[1])) :
          LET pool == Val(SelectedDirectPool(f, a))[RequestedOf(f, a[1])[j]]
          IN  ~IsNone(pool) /\ AllZero(Val(pool))

\* every column of the ensemble `out` is the point forecast `point`
ColumnsEqual(out, point, n_boot) ==
    /\ Len(Val(out).data) = n_boot
    /\ \A b \in 1..n_boot : Val(out).data[b] = Val(point.out).data
    /\ Val(out).index = Val(point.out).index

\* C21: when predict_bootstrapping returns and every residual of the pool it
\* selected is 0, every column of the ensemble equals what predict returns
\* for the same steps, last_window and exog, whatever n_boot and
\* random_state are, with and without transformers and differentiation, in
\* both forecasters.
C21_ZeroResidualsGivePointForecast ==
    /\ (IsAutoreg /\ Returned("predict_bootstrapping")
        /\ ZeroSelected(Val(call.before), call.args)) =>
           ColumnsEqual(call.out,
                        predict(Val(call.before), call.args[1], call.args[2],
                                call.args[3]),
                        call.args[4])
    /\ (IsDirect /\ Returned("predict_bootstrapping")
        /\ ZeroSelectedDirect(Val(call.before), call.args)) =>
           ColumnsEqual(call.out,
                        direct_predict(Val(call.before), call.args[1],
                                       call.args[2], call.args[3]),
                        call.args[4])

\* an ensemble of several steps and replicates came from a flat pool of
\* zeros, on a forecaster with fitted transformers of the target and of exog
C21_Witness ==
    /\ IsAutoreg /\ Returned("predict_bootstrapping")
    /\ ZeroSelected(Val(call.before), call.args)
    /\ ~call.args[6] /\ ~call.args[7]
    /\ call.args[1] = MaxSteps /\ call.args[4] = MaxBoot
    /\ ~IsNone(forecaster.transformer_y)
    /\ ~IsNone(forecaster.transformer_exog)
    /\ forecaster.exog_in_
    /\ Val(forecaster.transformer_exog).center # 0
    /\ Val(forecaster.transformer_y).center # 0

\* the same from per-bin pools of zeros, with a differentiation
C21_WitnessBinned ==
    /\ IsAutoreg /\ Returned("predict_bootstrapping")
    /\ ZeroSelected(Val(call.before), call.args)
    /\ ~call.args[6] /\ call.args[7]
    /\ ~IsNone(forecaster.differentiation)

\* the same on the direct forecaster with a transformer of the series
C21_WitnessDirect ==
    /\ IsDirect /\ Returned("predict_bootstrapping")
    /\ ZeroSelectedDirect(Val(call.before), call.args)
    /\ ~call.args[6]
    /\ ~IsNone(DictVal(Val(forecaster.transformer_series_), "l1"))

\* an ensemble came from a pool that holds a residual other than 0 and has a
\* column that differs from the point forecast
C21_WitnessNonZero ==
    /\ IsAutoreg /\ Returned("predict_bootstrapping")
    /\ ~ZeroSelected(Val(call.before), call.args)
    /\ ~ColumnsEqual(call.out,
                     predict(Val(call.before), call.args[1], call.args[2],
                             call.args[3]),
                     call.args[4])

-----------------------------------------------------------------------------
(* The configuration specification: a forecaster of either class is
   constructed, and then fitted, reconfigured (set_params, set_lags,
   set_fit_kwargs) and asked for predictions, MaxCalls calls in all *)

\* the dicts passed to set_fit_kwargs
FitKwargsMenu ==
    { << >>,
      << [k |-> "categorical_feature", v |-> "auto"] >>,
      << [k |-> "categorical_feature", v |-> "exog"] >>,
      << [k |-> "sample_weight", v |-> "w"], [k |-> "verbose", v |-> "1"] >>,
      << [k |-> "unknown_argument", v |-> "1"] >> }

\* the parameters passed to set_params: they select the estimator's function
ParamsMenu(f) ==
    IF f.class = "ForecasterAutoreg" THEN { "mean", "wsum" }
    ELSE { "const", "wsum" }

\* the lags passed to set_lags of ForecasterAutoreg
SetLagsMenu == { << 1 >>, << 1, 2 >>, << 1, 2, 3 >>, << 2, 4 >> }

CallSetFitKwargs ==
    /\ clock < MaxCalls
    /\ \E fit_kwargs \in FitKwargsMenu :
          /\ forecaster' = set_fit_kwargs(forecaster, fit_kwargs)
          /\ call' = Called("set_fit_kwargs", << fit_kwargs >>,
                            [raised |-> "", out |-> None], << >>)
    /\ clock' = clock + 1
    /\ UNCHANGED << boot, warned >>
    /\ UNCHANGED jobs

CallSetParams ==
    /\ clock < MaxCalls
    /\ \E params \in ParamsMenu(forecaster) :
          /\ forecaster' = IF forecaster.class = "ForecasterAutoreg"
                           THEN set_params(forecaster, params)
                           ELSE direct_set_params(forecaster, params)
          /\ call' = Called("set_params", << params >>,
                            [raised |-> "", out |-> None], << >>)
    /\ clock' = clock + 1
    /\ UNCHANGED << boot, warned >>
    /\ UNCHANGED jobs

CallAutoregSetLags ==
    /\ forecaster.class = "ForecasterAutoreg"
    /\ clock < MaxCalls
    /\ \E lags \in SetLagsMenu :
          /\ forecaster' = set_lags(forecaster, lags)
          /\ call' = Called("set_lags", << lags >>,
                            [raised |-> "", out |-> None], << >>)
    /\ clock' = clock + 1
    /\ UNCHANGED << boot, warned >>
    /\ UNCHANGED jobs

NextConfig ==
    \/ CallFit
    \/ CallDirectFit
    \/ CallSetFitKwargs
    \/ CallSetParams
    \/ CallAutoregSetLags
    \/ CallSetLags
    \/ CallPredict
    \/ CallDirectPredict

SpecConfig == Init /\ [][NextConfig]_vars

-----------------------------------------------------------------------------
(* Properties of the configuration *)

\* the items of dict d, as a set
Items(d) == { d[j] : j \in 1..Len(d) }

\* C22: when set_fit_kwargs(k) returns, every item of fit_kwargs is an item
\* of k (no key of the previous fit_kwargs survives unless k holds it),
\* fit_kwargs is what the same call gives on a forecaster whose fit_kwargs
\* was empty (the selection is made from k alone), and every other field of
\* the forecaster is as it was before the call.
C22_SetFitKwargsReplaces ==
    Returned("set_fit_kwargs") =>
        LET f == Val(call.before)
            k == call.args[1]
        IN  /\ Items(forecaster.fit_kwargs) \subseteq Items(k)
            /\ forecaster.fit_kwargs =
                   set_fit_kwargs([f EXCEPT !.fit_kwargs = << >>], k).fit_kwargs
            /\ forecaster = [f EXCEPT !.fit_kwargs = forecaster.fit_kwargs]

\* set_fit_kwargs was called on a fitted forecaster that held a key which
\* the new dict does not hold, and the new dict has items that are selected
\* and items that are not
C22_Witness ==
    /\ Returned("set_fit_kwargs")
    /\ Val(call.before).is_fitted
    /\ DictHas(Val(call.before).fit_kwargs, "categorical_feature")
    /\ ~DictHas(call.args[1], "categorical_feature")
    /\ forecaster.fit_kwargs # << >>
    /\ forecaster.fit_kwargs # call.args[1]

\* the same on a direct forecaster
C22_WitnessDirect ==
    /\ IsDirect /\ Returned("set_fit_kwargs")
    /\ Val(call.before).fit_kwargs # << >>
    /\ forecaster.fit_kwargs # Val(call.before).fit_kwargs

-----------------------------------------------------------------------------
(* Properties of the replicates of predict_bootstrapping *)

\* the residual the generator of seed random_state draws for step i of
\* replicate b (both counted from 0) when it fills a matrix of steps x n_boot
\* residuals in one shot from the pool
DrawnForPair(random_state, pool, n_boot, i, b) ==
    rng_choice(default_rng(random_state), i * n_boot + b, pool)

\* replicate `run` of a predict_bootstrapping call with arguments a on
\* forecaster f: at every step the row of the estimator reads the values the
\* earlier steps of the replicate wrote, and the value written is the
\* estimator's prediction plus a residual of the selected pool
ReplicateChecked(f, a, W, pool, run, b) ==
    /\ Len(run.rows) = a[1]
    /\ Len(run.predictions) = a[1]
    /\ \A i \in 0..(a[1] - 1) :
          LET raw == RegressorPredict(f.regressor, run.rows[i + 1])
              residual == run.predictions[i + 1] - raw
          IN  /\ \A c \in 1..Len(f.lags) :
                    run.rows[i + 1][c] =
                        IF f.lags[c] <= i
                        THEN run.predictions[i - f.lags[c] + 1]
                        ELSE W[Len(W) - (f.lags[c] - i) + 1]
              /\ IF a[7]
                 THEN residual \in ArrValues(
                          DictVal(pool, KBinsTransform(Val(f.binner.bin_edges_),
                                                       raw)))
                 ELSE /\ residual \in ArrValues(pool)
                      /\ residual = DrawnForPair(a[5], pool, a[4], i, b)

RawOf(f, run) ==
    [i \in 1..Len(run.rows) |-> RegressorPredict(f.regressor, run.rows[i])]

C23_WitnessFlat ==
    /\ IsAutoreg /\ Returned("predict_bootstrapping")
    /\ ~call.args[7]
    /\ call.args[1] = MaxSteps /\ call.args[4] = MaxBoot
    /\ call.rows[1].predictions # call.rows[2].predictions
    /\ RawOf(Val(call.before), call.rows[1])[1] # call.rows[1].predictions[1]


-----------------------------------------------------------------------------
(* Properties of the order of the transformations (ForecasterAutoreg) *)

\* the centre transformer_y subtracts, 0 without a transformer
CentreOf(f) == IF IsNone(f.transformer_y) THEN 0 ELSE Val(f.transformer_y).center

\* the raw tail of the window a call with argument last_window starts from
RawWindow(f, last_window) ==
    SeriesTail(Val(IF IsNone(last_window) THEN f.last_window_ ELSE last_window),
               f.window_size_diff).values

\* the window transformed first and differenced (order 1) second, written out
\* value by value
TransformedThenDifferenced(f, w) ==
    IF IsNone(f.differentiation)
    THEN [j \in 1..Len(w) |-> w[j] - CentreOf(f)]
    ELSE [j \in 1..Len(w) |->
             IF j = 1 THEN NaN
             ELSE (w[j] - CentreOf(f)) - (w[j - 1] - CentreOf(f))]

\* the written values of one run integrated from the last transformed value
\* of the window first, and brought back by the transformer second, once
IntegratedThenInverted(f, w, written) ==
    [j \in 1..Len(written) |->
        IF IsNone(f.differentiation) THEN written[j] + CentreOf(f)
        ELSE ((w[Len(w)] - CentreOf(f)) + SumSeq(SubSeq(written, 1, j)))
                 + CentreOf(f)]

\* the rows of one run read the prepared window W and the written values,
\* never a value brought back to the scale of the series
RowsReadWritten(f, W, rows, written) ==
    \A i \in 0..(Len(rows) - 1) :
        \A c \in 1..Len(f.lags) :
            rows[i + 1][c] =
                IF f.lags[c] <= i THEN written[i - f.lags[c] + 1]
                ELSE W[Len(W) - (f.lags[c] - i) + 1]

\* C24: in predict and predict_bootstrapping of ForecasterAutoreg the last
\* window is transformed by transformer_y before it is differenced, the
\* differenced window is what the first estimator call reads, the rows of
\* all steps read the values as written by the loop (the differencing is
\* undone only after the last step has been written), and every returned
\* value is the integrated written value brought back by the transformer
\* exactly once.
C24_TransformationOrder ==
    (IsAutoreg /\ call.raised = ""
         /\ call.op \in {"predict", "predict_bootstrapping"}
         /\ (IsNone(Val(call.before).differentiation)
                \/ Val(Val(call.before).differentiation) = 1)) =>
        LET f == Val(call.before)
            w == RawWindow(f, call.args[2])
            W == TransformedThenDifferenced(f, w)
        IN  IF call.op = "predict"
            THEN LET written == [i \in 1..Len(call.rows) |->
                                    RegressorPredict(f.regressor, call.rows[i])]
                 IN  /\ Len(call.rows) = call.args[1]
                     /\ RowsReadWritten(f, W, call.rows, written)
                     /\ Val(call.out).data = IntegratedThenInverted(f, w, written)
            ELSE \A b \in 1..call.args[4] :
                    /\ Len(call.rows[b].rows) = call.args[1]
                    /\ RowsReadWritten(f, W, call.rows[b].rows,
                                       call.rows[b].predictions)
                    /\ Val(call.out).data[b] =
                           IntegratedThenInverted(f, w, call.rows[b].predictions)

\* predict returned several steps on a forecaster with a transformer of
\* centre other than 0 and differentiation 1, and a later step read a
\* written value
C24_Witness ==
    /\ IsAutoreg /\ Returned("predict")
    /\ call.args[1] = MaxSteps
    /\ CentreOf(Val(call.before)) # 0
    /\ Val(call.before).differentiation = Some(1)
    /\ \E c \in 1..Len(Val(call.before).lags) : Val(call.before).lags[c] = 1
    /\ Val(call.out).data[1] # Val(call.out).data[MaxSteps]

\* the same for an ensemble of predict_bootstrapping
C24_WitnessBootstrapping ==
    /\ IsAutoreg /\ Returned("predict_bootstrapping")
    /\ call.args[1] = MaxSteps
    /\ CentreOf(Val(call.before)) # 0
    /\ Val(call.before).differentiation = Some(1)
    /\ call.rows[1].predictions[1]
           # RegressorPredict(Val(call.before).regressor, call.rows[1].rows[1])


-----------------------------------------------------------------------------
(* The predictors specification: a ForecasterAutoreg is constructed, fitted,
   and asked for predictions and for the predictors of create_predict_X *)

NextPredictX ==
    \/ CallFit
    \/ CallPredict
    \/ CallCreatePredictX

SpecPredictX == InitAutoreg /\ [][NextPredictX]_vars

-----------------------------------------------------------------------------
(* Properties of create_predict_X *)

\* C25: when ForecasterAutoreg.create_predict_X(steps, last_window, exog)
\* returns, it returned one row per step and the row of step i is the row
\* the estimator was handed at step i of the prediction with the same
\* arguments: the lag columns in the order of lags, then row i of exog; also
\* with transformer_y or differentiation.
C25_PredictXIsWhatPredictFeeds ==
    (IsAutoreg /\ Returned("create_predict_X")) =>
        /\ Len(Val(call.out).data) = call.args[1]
        /\ Val(call.out).data = call.rows
        /\ call.rows = predict(Val(call.before), call.args[1], call.args[2],
                               call.args[3]).rows

\* the same without transformer_y and without differentiation, and for the
\* first step in every case; the exog columns in every case
C25_PredictXUntransformed ==
    (IsAutoreg /\ Returned("create_predict_X")) =>
        /\ Len(Val(call.out).data) = call.args[1]
        /\ Val(call.out).data[1] = call.rows[1]
        /\ \A i \in 1..call.args[1] :
              \A c \in 1..Len(call.rows[i]) :
                 (c > Len(forecaster.lags)
                    \/ forecaster.lags[c] >= i
                    \/ (CentreOf(forecaster) = 0
                          /\ IsNone(forecaster.differentiation))) =>
                     Val(call.out).data[i][c] = call.rows[i][c]

\* create_predict_X returned several steps on a forecaster with a
\* transformer_y or a differentiation that has a lag smaller than the number
\* of steps
C25_Witness ==
    /\ IsAutoreg /\ Returned("create_predict_X")
    /\ call.args[1] = MaxSteps
    /\ \/ CentreOf(forecaster) # 0
       \/ ~IsNone(forecaster.differentiation)
    /\ \E c \in 1..Len(forecaster.lags) : forecaster.lags[c] < MaxSteps

\* create_predict_X returned several steps with exog on a forecaster
\* without transformer_y and differentiation
C25_WitnessUntransformed ==
    /\ IsAutoreg /\ Returned("create_predict_X")
    /\ call.args[1] = MaxSteps
    /\ ~IsNone(call.args[3])
    /\ IsNone(forecaster.transformer_y) /\ IsNone(forecaster.differentiation)
    /\ Val(call.out).data[MaxSteps][1] = 
           RegressorPredict(forecaster.regressor, call.rows[MaxSteps - 1])


-----------------------------------------------------------------------------
(* Properties of the configuration of a fitted forecaster *)

\* the estimator(s) predict invokes on forecaster f are trained
EstimatorsTrained(f) ==
    IF f.class = "ForecasterAutoreg" THEN ~IsNone(f.regressor.trained)
    ELSE \A step \in 1..f.steps : ~IsNone(f.regressors_[step].trained)

\* the lags from which predict builds its rows on forecaster f are those of
\* the training matrix of the fit: for ForecasterAutoreg the lag columns
\* recorded in X_train_features_names_out_, for ForecasterAutoregMultiVariate
\* the dict lags_ that fit builds, with the lags of every training series
LagsOfFit(f) ==
    IF f.class = "ForecasterAutoreg"
    THEN /\ ~IsNone(f.X_train_features_names_out_)
         /\ f.lags = Val(f.X_train_features_names_out_).lags
         /\ ~IsNone(f.regressor.trained) =>
               Val(f.regressor.trained).n_features
                   = Len(f.lags) + (IF f.exog_in_ THEN 1 ELSE 0)
    ELSE /\ ~IsNone(f.lags_)
         /\ ~IsNone(f.X_train_series_names_in_)
         /\ \A j \in 1..Len(Val(f.X_train_series_names_in_)) :
               /\ DictHas(Val(f.lags_), Val(f.X_train_series_names_in_)[j])
               /\ DictVal(Val(f.lags_), Val(f.X_train_series_names_in_)[j])
                      = f.lags

\* C26: in every state reached by fit, set_params, set_lags, set_fit_kwargs
\* and predict calls on a forecaster of either class, if is_fitted is True
\* then the estimators predict invokes are trained and the lags predict
\* builds its rows from are those of the fit.
C26_FittedConfigurationOfLastFit ==
    forecaster.is_fitted =>
        EstimatorsTrained(forecaster) /\ LagsOfFit(forecaster)

\* fit, set_fit_kwargs and predict do keep it: after a successful fit the
\* estimators are trained and the lags are those of that fit, and
\* set_fit_kwargs and predict change neither
C26_FitKeepsConfiguration ==
    (forecaster.is_fitted
         /\ call.op \in { "fit", "set_fit_kwargs", "predict" }
         /\ (Val(call.before).is_fitted /\ call.op # "fit" =>
                EstimatorsTrained(Val(call.before))
                    /\ LagsOfFit(Val(call.before)))) =>
        EstimatorsTrained(forecaster) /\ LagsOfFit(forecaster)

\* set_params or set_lags returned on a fitted ForecasterAutoreg, which is
\* still fitted
C26_Witness ==
    /\ IsAutoreg
    /\ call.op \in { "set_params", "set_lags" }
    /\ Val(call.before).is_fitted /\ forecaster.is_fitted
    /\ EstimatorsTrained(Val(call.before)) /\ LagsOfFit(Val(call.before))

\* the same on a ForecasterAutoregMultiVariate
C26_WitnessDirect ==
    /\ IsDirect
    /\ call.op \in { "set_params", "set_lags" }
    /\ Val(call.before).is_fitted /\ forecaster.is_fitted
    /\ EstimatorsTrained(Val(call.before)) /\ LagsOfFit(Val(call.before))

\* predict was called on a forecaster with is_fitted True and the call to
\* the estimator failed
C26_WitnessPredictFails ==
    /\ call.op = "predict"
    /\ Val(call.before).is_fitted
    /\ call.raised \in { "sklearn.NotFittedError", "sklearn.ValueError",
                         "IndexError" }


-----------------------------------------------------------------------------
(* The layout specification: a ForecasterAutoregMultiVariate is constructed
   with lags, a transformer, window features and a differentiation, fitted
   and asked for predictions *)

\* the forecasters that are constructed: regressor, lags, size of the
\* window feature, transformer_series, differentiation
LayoutConfigs ==
    { << kind, lags, wf, tr, d >> :
        kind \in { "const", "wsum" }, lags \in { << 1 >>, << 1, 2 >> },
        wf \in { None, Some(1), Some(3) }, tr \in BOOLEAN,
        d \in { None, Some(1) } }

InitLayout ==
    /\ forecaster \in
          { ForecasterAutoregMultiVariate(c[1], "l1", MaxSteps, c[2], c[3],
                                          c[4], None, c[5]) :
              c \in LayoutConfigs }
    /\ call = NoCall
    /\ boot = NoBoot
    /\ warned = << >>
    /\ clock = 0
    /\ jobs = NoJobs

NextLayout ==
    \/ CallDirectFit
    \/ CallDirectPredict

SpecLayout == InitLayout /\ [][NextLayout]_vars

-----------------------------------------------------------------------------
(* Properties of the input layout of ForecasterAutoregMultiVariate *)

\* the window a predict call with argument last_window starts from
DirectWindow(f, last_window) ==
    FrameTail(Val(IF IsNone(last_window) THEN f.last_window_ ELSE last_window),
              f.window_size, Val(f.X_train_series_names_in_))

\* the window followed by f.steps rows that stand for the values to predict
WindowAndTargets(f, window) ==
    Frame(window.start,
          [j \in 1..Len(window.columns) |->
              [k |-> window.columns[j].k,
               v |-> window.columns[j].v \o np_full(f.steps, 0)]])

\* the exog of the rows of WindowAndTargets: that of the horizon after the
\* window
WindowAndTargetsExog(f, exog) ==
    IF IsNone(exog) THEN None
    ELSE Some(np_full(f.window_size, << 0 >>) \o SubSeq(Val(exog), 1, f.steps))

\* the training row of horizon s for the targets that follow the window:
\* the only row of the training matrix that the fitted forecaster builds
\* from the window and its targets
TrainingRowAfter(f, window, exog, s) ==
    direct_create_train_X_y(f, WindowAndTargets(f, window),
                            WindowAndTargetsExog(f, exog)).X_train[s][1]

\* C27: when ForecasterAutoregMultiVariate.predict has built its rows, the
\* row handed to the estimator of every requested horizon s is the training
\* row that
\* _create_train_X_y and filter_train_X_y_for_step build for the target s
\* steps after the window: the same lag values after transformation and
\* differencing, the same window-feature columns, the exog of horizon s.
C27_TrainPredictSameLayout ==
    (IsDirect /\ call.op = "predict" /\ call.rows # << >>) =>
        \A j \in 1..Len(call.rows) :
            call.rows[j].X =
                TrainingRowAfter(Val(call.before),
                                 DirectWindow(Val(call.before), call.args[2]),
                                 call.args[3], call.rows[j].step)

\* the same for the forecasters without window features and without
\* differentiation
C27_SameLayoutLagsOnly ==
    (IsDirect /\ Returned("predict")
         /\ IsNone(forecaster.max_size_window_features)
         /\ IsNone(forecaster.differentiation)) =>
        \A j \in 1..Len(call.rows) :
            call.rows[j].X =
                TrainingRowAfter(Val(call.before),
                                 DirectWindow(Val(call.before), call.args[2]),
                                 call.args[3], call.rows[j].step)

\* predict returned several horizons on a forecaster fitted with a
\* differentiation
C27_Witness ==
    /\ IsDirect /\ Returned("predict")
    /\ ~IsNone(forecaster.differentiation)
    /\ Len(call.rows) > 1

\* predict built its rows on a forecaster fitted with window features, and
\* the estimator rejected them
C27_WitnessWindowFeatures ==
    /\ IsDirect /\ call.op = "predict" /\ call.rows # << >>
    /\ call.raised = "sklearn.ValueError"
    /\ ~IsNone(forecaster.max_size_window_features)
    /\ IsNone(forecaster.differentiation)

\* predict returned several horizons with exog on a forecaster with a
\* transformer and neither window features nor differentiation
C27_WitnessLagsOnly ==
    /\ IsDirect /\ Returned("predict")
    /\ IsNone(forecaster.max_size_window_features)
    /\ IsNone(forecaster.differentiation)
    /\ forecaster.transformer_series
    /\ ~IsNone(call.args[3])
    /\ Len(call.rows) > 1


-----------------------------------------------------------------------------
(* Properties of the back-filled bins *)

\* a warning of the last call names bin k as empty: the call has back-filled it
BackFilled(k) ==
    \E w \in 1..Len(warned) :
        /\ warned[w].kind = "empty_bins"
        /\ \E j \in 1..Len(warned[w].bins) : warned[w].bins[j] = k

\* how many of the residuals v are held by pool, every value counting at
\* most as often as v has it
RECURSIVE SharedCount(_, _, _)
SharedCount(vals, v, pool) ==
    IF vals = << >> THEN 0
    ELSE Min(ArrCount(v, Head(vals)), ArrCount(pool, Head(vals)))
         + SharedCount(Tail(vals), v, pool)

\* pool holds the residuals v, up to the cap of a bin
StoresReceived(v, pool) ==
    SharedCount(SortedSeq(ArrValues(v)), v, pool) >= Min(ArrLen(v), BinCap)

\* a set_out_sample_residuals call with y_pred that set the pools anew is
\* followed by one with y_pred and append=True: every bin the first call
\* back-filled and the second supplies residuals for stores those residuals,
\* and the flat pool holds only residuals of the two calls, each at most as
\* often as the calls supplied it
BackFillYieldsStep ==
    ( /\ IsAutoreg
      /\ SetOutBinned
      /\ ~call.args[3] \/ IsNone(Before.out_sample_residuals_by_bin_)
      /\ SetOutBinned'
      /\ call'.args[3] ) =>
        /\ \A j \in 1..Len(ReceivedByBin') :
              BackFilled(ReceivedByBin'[j].k) =>
                  StoresReceived(
                      ReceivedByBin'[j].v,
                      DictVal(Val(forecaster'.out_sample_residuals_by_bin_),
                              ReceivedByBin'[j].k))
        /\ ArrSubBag(Val(forecaster'.out_sample_residuals_),
                     ArrConcat(ResidualColumn(call.args[1]),
                               ResidualColumn(call'.args[1])))

\* C28: back-filled values in out_sample_residuals_by_bin_ never displace
\* real residuals: when a set_out_sample_residuals call has back-filled a bin
\* and the next call, with append=True, supplies residuals whose predictions
\* fall in that bin, those residuals are stored in the bin (up to 200), and
\* out_sample_residuals_ holds only residuals that the calls supplied, each at
\* most as often as it was supplied.
C28_BackFillYieldsToResiduals == [][BackFillYieldsStep]_vars

\* the call before the last one had back-filled a bin, the last call, with
\* append=True, supplied residuals for that bin, and the bin holds none of
\* them while out_sample_residuals_ holds a value more often than it was
\* supplied
C28_Witness ==
    /\ IsAutoreg /\ SetOutBinned /\ call.args[3]
    /\ ~IsNone(Before.out_sample_residuals_by_bin_)
    /\ ~IsNone(Before.out_sample_residuals_)
    /\ ByBinLen(Before.out_sample_residuals_by_bin_)
           > FlatLen(Before.out_sample_residuals_)
    /\ \E j \in 1..Len(ReceivedByBin) :
          LET k == ReceivedByBin[j].k
          IN  /\ DictHas(Val(Before.out_sample_residuals_by_bin_), k)
              /\ ArrLen(DictVal(Val(Before.out_sample_residuals_by_bin_), k))
                     = BinCap
              /\ ~ArrSubBag(DictVal(Val(Before.out_sample_residuals_by_bin_), k),
                            Val(Before.out_sample_residuals_))
              /\ SharedCount(
                     SortedSeq(ArrValues(ReceivedByBin[j].v)),
                     ReceivedByBin[j].v,
                     DictVal(Val(forecaster.out_sample_residuals_by_bin_), k))
                     = 0
    /\ \E x \in ArrValues(Val(forecaster.out_sample_residuals_)) :
          ArrCount(Val(forecaster.out_sample_residuals_), x)
              > ArrCount(Val(Before.out_sample_residuals_), x)
                    + ArrCount(ResidualColumn(call.args[1]), x)


-----------------------------------------------------------------------------
(* Properties of the size of the training matrices *)

\* the order of differentiation of forecaster f, 0 without differentiation
OrderOf(f) == IF IsNone(f.differentiation) THEN 0 ELSE Val(f.differentiation)

\* C29: ForecasterAutoreg.create_train_X_y either raises or returns at least
\* one training row: a series of length n <= max_lag + d, d being the order
\* of differentiation (0 without), is rejected.
C29_TrainXyRaisesOrHasRows ==
    (IsAutoreg /\ call.op = "create_train_X_y") =>
        /\ call.raised = "" =>
              /\ Len(Val(call.out)[1]) >= 1
              /\ Len(Val(call.out)[2]) >= 1
        /\ Len(call.args[1]) <= Before.max_lag + OrderOf(Before) =>
              call.raised = "ValueError"

\* without differentiation it does: a series of length n <= max_lag is
\* rejected, and a longer one gives n - max_lag rows
C29_WithoutDifferentiation ==
    (IsAutoreg /\ call.op = "create_train_X_y"
         /\ IsNone(Before.differentiation)) =>
        IF Len(call.args[1]) <= Before.max_lag
        THEN call.raised = "ValueError"
        ELSE /\ call.raised = ""
             /\ Len(Val(call.out)[1]) = Len(call.args[1]) - Before.max_lag
             /\ Len(Val(call.out)[2]) = Len(call.args[1]) - Before.max_lag

\* create_train_X_y returned, without raising, matrices with no rows for a
\* series of length max_lag + d on a forecaster with differentiation d
C29_Witness ==
    /\ IsAutoreg /\ call.op = "create_train_X_y" /\ call.raised = ""
    /\ ~IsNone(Before.differentiation)
    /\ Len(call.args[1]) = Before.max_lag + OrderOf(Before)
    /\ Val(call.out)[1] = << >>
    /\ Val(call.out)[2] = << >>

\* create_train_X_y raised on a series as long as the largest lag, and it
\* returned rows for a longer one, on forecasters without differentiation
C29_WitnessWithoutDifferentiation ==
    /\ IsAutoreg /\ call.op = "create_train_X_y"
    /\ IsNone(Before.differentiation)
    /\ \/ Len(call.args[1]) = Before.max_lag /\ call.raised = "ValueError"
       \/ Len(call.args[1]) > Before.max_lag /\ Len(Val(call.out)[1]) >= 1


-----------------------------------------------------------------------------
(* Properties of the horizons of predict_bootstrapping
   (ForecasterAutoregMultiVariate) *)

\* predict_bootstrapping with the arguments of the last call, horizon s
\* being the only one requested
HorizonAlone(s) ==
    direct_predict_bootstrapping(Before, Some(<< s >>), call.args[2],
                                 call.args[3], call.args[4], call.args[5],
                                 call.args[6])

\* the replicates of the horizon in position j of the last call are those
\* of a call that requests that horizon alone
SameAsAlone(j) ==
    LET alone == HorizonAlone(RequestedOf(Before, call.args[1])[j])
    IN  /\ alone.raised = ""
        /\ \A b \in 1..call.args[4] :
              Val(call.out).data[b][j] = Val(alone.out).data[b][1]

\* C30: when ForecasterAutoregMultiVariate.predict_bootstrapping returns, the
\* replicates returned for every requested horizon s are those that a call
\* with the same forecaster, last window, exog, n_boot and random_state
\* returns when s is the only horizon requested.
C30_HorizonsIndependent ==
    (IsDirect /\ Returned("predict_bootstrapping")) =>
        \A j \in 1..Len(RequestedOf(Before, call.args[1])) : SameAsAlone(j)

\* the horizon requested first is independent of the others, and so is the
\* index of every horizon
C30_FirstHorizonIndependent ==
    (IsDirect /\ Returned("predict_bootstrapping")) =>
        /\ SameAsAlone(1)
        /\ \A j \in 1..Len(RequestedOf(Before, call.args[1])) :
              Val(call.out).index[j]
                  = Val(HorizonAlone(RequestedOf(Before, call.args[1])[j]).out)
                        .index[1]

\* predict_bootstrapping returned several replicates of several horizons,
\* and the replicates of a horizon that was not requested first differ from
\* those of the call that requests it alone
C30_Witness ==
    /\ IsDirect /\ Returned("predict_bootstrapping")
    /\ call.args[4] = MaxBoot
    /\ Len(RequestedOf(Before, call.args[1])) > 1
    /\ \E j \in 2..Len(RequestedOf(Before, call.args[1])) : ~SameAsAlone(j)

=============================================================================
